---- MODULE Spec2Model ----
(***************************************************************************)
(* QIA: test execution, failure classification and self-healing locators.  *)
(*                                                                         *)
(* Source text (locators, file contents, error messages) is modelled as    *)
(* sequences of one-character strings, so that the regular expressions and *)
(* substring tests of the code are computed character by character.        *)
(***************************************************************************)
EXTENDS Integers, Sequences, FiniteSets, TLC

VARIABLES
    mode,          \* the entry point that drives the run: "locator", "heal", "exec", "rca", "orch"
    files,         \* the test files on disk: path -> content
    hfile,         \* healAndRerun / healFile: the path of the artifact
    hcaller,       \* who called healFile: "loop" (healAndRerun), "orch", "unit"
    hpc,           \* position inside healAndRerun / healFile
    maxAttempts,   \* agentConfig.maxHealAttempts
    attempt,       \* healAndRerun: let attempt
    initialResult, \* healAndRerun: the parameter initialResult
    current,       \* healAndRerun: let current
    lastRerun,     \* healAndRerun: what the last executor.executeTest returned
    retval,        \* healAndRerun: the returned result (None before the return)
    content,       \* healFile: const content (the source as read)
    brokenLocators,\* healFile: const brokenLocators
    li,            \* healFile: index of the locator the for loop is at
    healedContent, \* healFile: let healedContent
    results,       \* healFile: const results
    report,        \* healFile: the HealingReport of the last completed pass
    hlog,          \* what the healer did, in order: "pass", "write", "exec"
    erun,          \* executeTest: what the runner invocation produced
    eres,          \* executeTest: the returned result, Raised, or None before the call
    ranOn,         \* per test file, the source the runner last executed, Null for none
    rtest,         \* RCAAgent.analyze: the failure record that is analysed
    rres,          \* RCAAgent.analyze: the returned RCAResult, None before the call
    rreply,        \* getAIAnalysis: what the generative call answered, None before it
    rprev,         \* the record and the category of the call of analyze before this one
    opc,           \* Orchestrator.run: the position in the pipeline
    run,           \* Orchestrator.run: const run (the QIARun)
    tests,         \* Orchestrator.run: const tests (the generated tests)
    autoApprove,   \* agentConfig.autoApproveGates || QIA_AUTO_APPROVE_GATES
    oi,            \* Orchestrator.run: index of the for loop of the heal phase
    failing,       \* Orchestrator.run: const failingResults
    updated,       \* Orchestrator.run: const updated
    gate2Seen,     \* the execution results handed to buildGate2Context
    reported,      \* the execution results handed to the reporter
    jira,          \* the Jira status the reporter moved the ticket to, NoName for none
    exitCode,      \* the code the run command exited with, <<>> while it has not
    gateNo,        \* ApprovalGate.request: the gate that is requested
    gpc,           \* ApprovalGate.request: position (idle, asked, notes, settled)
    timer,         \* promptUser: the timeout (unset, armed, cleared, fired)
    choice,        \* promptUser: the first line that was answered, Null for none
    resolved,      \* the GateResults the request was resolved with, in order
    glog           \* the questions, the answers and the deadline, in order

healVars == <<files, hfile, hcaller, hpc, maxAttempts, attempt, initialResult, current,
              lastRerun, retval, content, brokenLocators, li, healedContent, results,
              report, hlog>>
execVars == <<erun, eres, ranOn>>
rcaVars == <<rtest, rres, rreply, rprev>>
orchVars == <<opc, run, tests, autoApprove, oi, failing, updated, gate2Seen, reported, jira,
              exitCode>>
gateVars == <<gateNo, gpc, timer, choice, resolved, glog>>
vars == <<mode, healVars, execVars, rcaVars, orchVars, gateVars>>

-----------------------------------------------------------------------------
(* Strings                                                                 *)

\* null / undefined where a string (a sequence of characters) is expected
Null == <<"null">>
\* null / undefined where an object (a record) is expected
None == [none |-> TRUE]
\* null / undefined where an atomic name (a path, a status) is expected
NoName == "null"

Chars(s) == [i \in 1..Len(s) |-> SubSeq(s, i, i)]

Min(a, b) == IF a < b THEN a ELSE b

\* s.slice(0, n)
slice(s, n) == SubSeq(s, 1, Min(Len(s), n))

UpperCase == Chars("ABCDEFGHIJKLMNOPQRSTUVWXYZ")
LowerCase == Chars("abcdefghijklmnopqrstuvwxyz")
Digits    == Chars("0123456789")

Range(f) == {f[i] : i \in DOMAIN f}

Letters   == Range(UpperCase) \cup Range(LowerCase)
WordChars == Letters \cup Range(Digits) \cup {"_"}     \* \w
WordDash  == WordChars \cup {"-"}                      \* [\w-]
Quotes    == {"'", "\""}                               \* ['"]

lowerChar(c) ==
    IF c \in Range(UpperCase)
    THEN LowerCase[CHOOSE i \in DOMAIN UpperCase : UpperCase[i] = c]
    ELSE c

toLowerCase(s) == [i \in DOMAIN s |-> lowerChar(s[i])]

upperChar(c) ==
    IF c \in Range(LowerCase)
    THEN UpperCase[CHOOSE i \in DOMAIN LowerCase : LowerCase[i] = c]
    ELSE c

toUpperCase(s) == [i \in DOMAIN s |-> upperChar(s[i])]

\* s.startsWith(p, at i): p occurs in s at position i (1-based)
OccursAt(s, p, i) ==
    /\ i >= 1
    /\ i + Len(p) - 1 <= Len(s)
    /\ \A k \in 1..Len(p) : s[i + k - 1] = p[k]

startsWith(s, p) == OccursAt(s, p, 1)

MinOf(S) == CHOOSE i \in S : \A j \in S : i <= j

\* the element of a one-element set: { e(x) : x \in {v} } computes v once
The(S) == CHOOSE x \in S : TRUE

\* s.indexOf(p), 1-based; 0 when p does not occur
indexOf(s, p) ==
    LET at == {i \in 1..(Len(s) + 1) : OccursAt(s, p, i)} IN
    IF at = {} THEN 0 ELSE MinOf(at)

includes(s, p) == indexOf(s, p) # 0

\* length of the longest run of characters of the set S that starts at i
RECURSIVE RunIn(_, _, _)
RunIn(s, i, S) ==
    IF i <= Len(s) /\ s[i] \in S THEN 1 + RunIn(s, i + 1, S) ELSE 0

\* length of the longest run of characters outside the set S that starts at i
RECURSIVE RunNotIn(_, _, _)
RunNotIn(s, i, S) ==
    IF i <= Len(s) /\ s[i] \notin S THEN 1 + RunNotIn(s, i + 1, S) ELSE 0

\* s.replace(pat, rep) with a string pattern: the first occurrence only
\* (the replacement texts of the model carry no "$" pattern)
replace(s, pat, rep) ==
    LET i == indexOf(s, pat) IN
    IF i = 0 THEN s
    ELSE SubSeq(s, 1, i - 1) \o rep \o SubSeq(s, i + Len(pat), Len(s))

\* trim() for the replies of the model: leading and trailing blanks
RECURSIVE trimStart(_)
trimStart(s) == IF s # <<>> /\ Head(s) = " " THEN trimStart(Tail(s)) ELSE s
RECURSIVE trimEnd(_)
trimEnd(s) ==
    IF s # <<>> /\ s[Len(s)] = " " THEN trimEnd(SubSeq(s, 1, Len(s) - 1)) ELSE s
trim(s) == trimEnd(trimStart(s))

\* the mutant of dedupe: every match is kept
dedupe_keepAll(a) == a

\* removes duplicates, keeping the first occurrence of each ([...new Set(a)])
dedupe(a) ==
    The({ [k \in 1..Cardinality(first) |->
              a[CHOOSE i \in first : Cardinality({j \in first : j <= i}) = k]] :
          first \in {{i \in DOMAIN a : \A j \in 1..(i - 1) : a[j] # a[i]}} })

-----------------------------------------------------------------------------
(* HealerAgent: the three tiers                                            *)

PageLocatorOpen == Chars("page.locator(")

\* /\.([a-zA-Z][\w-]*)/ : positions of a "." followed by a letter
cssMatchAt(s) == {i \in 1..(Len(s) - 1) : s[i] = "." /\ s[i + 1] \in Letters}

\* /@id=['"]([^'"]+)['"]/ : positions where the whole pattern matches
xpathMatchAt(s) ==
    {i \in 1..Len(s) :
        /\ OccursAt(s, Chars("@id="), i)
        /\ i + 4 <= Len(s) /\ s[i + 4] \in Quotes
        /\ LET n == RunNotIn(s, i + 5, Quotes) IN
             n >= 1 /\ i + 5 + n <= Len(s) /\ s[i + 5 + n] \in Quotes}

replaceDashes(s) == [i \in DOMAIN s |-> IF s[i] = "-" THEN "_" ELSE s[i]]

healTier1(locator) ==
    LET css == cssMatchAt(locator)
        xp  == xpathMatchAt(locator)
    IN IF css # {}
       THEN LET i == MinOf(css)
                tok == SubSeq(locator, i + 1, i + RunIn(locator, i + 1, WordDash))
            IN Chars("page.getByTestId('") \o replaceDashes(toLowerCase(tok)) \o Chars("')")
       ELSE IF xp # {}
       THEN LET i == MinOf(xp)
                id == SubSeq(locator, i + 5, i + 4 + RunNotIn(locator, i + 5, Quotes))
            IN Chars("page.getByTestId('") \o id \o Chars("')")
       ELSE Null

TextMin == 3
TextMax == 40

\* /['"]([^'"]{3,40})['"]/ : positions of a quote followed by 3..40 non-quote
\* characters and a quote
textMatchAt(s) ==
    {i \in 1..Len(s) :
        /\ s[i] \in Quotes
        /\ LET n == RunNotIn(s, i + 1, Quotes) IN
             n >= TextMin /\ n <= TextMax /\ i + 1 + n <= Len(s) /\ s[i + 1 + n] \in Quotes}

\* /a|b|c/i.test(s)
testAny(s, words) == \E w \in words : includes(toLowerCase(s), Chars(w))

\* /h[1-6]/i.test(s)
testHn(s) ==
    \E i \in 1..(Len(s) - 1) :
        lowerChar(s[i]) = "h" /\ s[i + 1] \in {"1", "2", "3", "4", "5", "6"}

healTier2(locator) ==
    LET at == textMatchAt(locator) IN
    IF at = {} THEN Null
    ELSE LET i == MinOf(at)
             text == SubSeq(locator, i + 1, i + RunNotIn(locator, i + 1, Quotes))
         IN IF testAny(locator, {"button", "btn", "submit", "cancel"})
            THEN Chars("page.getByRole('button', { name: '") \o text \o Chars("' })")
            ELSE IF testAny(locator, {"input", "field", "email", "password"})
            THEN Chars("page.getByLabel('") \o text \o Chars("')")
            ELSE IF testAny(locator, {"link", "anchor"})
            THEN Chars("page.getByRole('link', { name: '") \o text \o Chars("' })")
            ELSE IF testAny(locator, {"heading", "title"}) \/ testHn(locator)
            THEN Chars("page.getByRole('heading', { name: '") \o text \o Chars("' })")
            ELSE Chars("page.getByText('") \o text \o Chars("', { exact: true })")

ReplyMax == 200

\* The generative call of tier 3 either rejects or resolves with a text
\* (the message content, "" when the reply carries none).
AiRaise == [raise |-> TRUE]
AiText(s) == [raise |-> FALSE, text |-> Chars(s)]

\* healTier3 after the call resolved with `reply`
healTier3(reply) ==
    LET text == trim(reply.text) IN
    IF startsWith(text, Chars("page.")) /\ Len(text) < ReplyMax THEN text ELSE Null

\* A HealResult.  confidence is in hundredths.  `calls` lists the tiers that were
\* invoked, in order; `raised` is set when the tier-3 call rejected, in which
\* case healLocator rejects and no HealResult exists.
HealResult(broken, healed, tier, conf, attempts, success, calls) ==
    [original |-> broken, healed |-> healed, tier |-> tier, confidence |-> conf,
     attempts |-> attempts, success |-> success, calls |-> calls, raised |-> FALSE]

HealRaised(broken, calls) ==
    [original |-> broken, calls |-> calls, raised |-> TRUE]

\* the mutant of healLocator: no return after a successful tier 1
healLocator_noStop(broken, ai) ==
    LET tier1 == healTier1(broken)
        tier2 == healTier2(broken)
    IN IF tier2 # Null
       THEN HealResult(broken, tier2, "semantic", 80, 2, TRUE, <<1, 2>>)
       ELSE IF tier1 # Null
       THEN HealResult(broken, tier1, "testid", 95, 1, TRUE, <<1, 2>>)
       ELSE IF ai.raise THEN HealRaised(broken, <<1, 2, 3>>)
       ELSE LET tier3 == healTier3(ai) IN
            HealResult(broken, IF tier3 # Null THEN tier3 ELSE broken, "ai",
                       IF tier3 # Null THEN 65 ELSE 0, 3, tier3 # Null, <<1, 2, 3>>)

\* the mutant of healLocator: the confidence of tier 3 does not depend on success
healLocator_fixedConfidence(broken, ai) ==
    LET tier1 == healTier1(broken) IN
    IF tier1 # Null
    THEN HealResult(broken, tier1, "testid", 95, 1, TRUE, <<1>>)
    ELSE LET tier2 == healTier2(broken) IN
         IF tier2 # Null
         THEN HealResult(broken, tier2, "semantic", 80, 2, TRUE, <<1, 2>>)
         ELSE IF ai.raise THEN HealRaised(broken, <<1, 2, 3>>)
         ELSE LET tier3 == healTier3(ai) IN
              HealResult(broken, IF tier3 # Null THEN tier3 ELSE broken, "ai",
                         65, 3, tier3 # Null, <<1, 2, 3>>)

healLocator(broken, ai) ==
    LET tier1 == healTier1(broken) IN
    IF tier1 # Null
    THEN HealResult(broken, tier1, "testid", 95, 1, TRUE, <<1>>)
    ELSE LET tier2 == healTier2(broken) IN
         IF tier2 # Null
         THEN HealResult(broken, tier2, "semantic", 80, 2, TRUE, <<1, 2>>)
         ELSE IF ai.raise THEN HealRaised(broken, <<1, 2, 3>>)
         ELSE LET tier3 == healTier3(ai) IN
              HealResult(broken, IF tier3 # Null THEN tier3 ELSE broken, "ai",
                         IF tier3 # Null THEN 65 ELSE 0, 3, tier3 # Null, <<1, 2, 3>>)

\* One of the three detection patterns at position i: the length of the match,
\* 0 when there is none.
\*   "class": /page\.locator\(['"]\.[\w-]+['"]\)/
\*   "id":    /page\.locator\(['"]#[\w-]+['"]\)/
\*   "xpath": /page\.locator\(['"]\/\/[^'"]+['"]\)/
patternAt(s, i, kind) ==
    LET q == i + Len(PageLocatorOpen)          \* the opening quote
        lead == IF kind = "class" THEN Chars(".")
                ELSE IF kind = "id" THEN Chars("#") ELSE Chars("//")
        b == q + 1 + Len(lead)                 \* first character of the body
        n == IF kind = "xpath" THEN RunNotIn(s, b, Quotes) ELSE RunIn(s, b, WordDash)
    IN IF /\ OccursAt(s, PageLocatorOpen, i)
          /\ q <= Len(s) /\ s[q] \in Quotes
          /\ OccursAt(s, lead, q + 1)
          /\ n >= 1
          /\ b + n + 1 <= Len(s)
          /\ s[b + n] \in Quotes
          /\ s[b + n + 1] = ")"
       THEN b + n + 2 - i
       ELSE 0

\* content.match(pattern) with the g flag: the matches from left to right,
\* each search resuming after the previous match
RECURSIVE matchAll(_, _, _)
matchAll(s, i, kind) ==
    The({ IF at = {} THEN <<>>
          ELSE The({ <<SubSeq(s, j, j + patternAt(s, j, kind) - 1)>>
                       \o matchAll(s, j + patternAt(s, j, kind), kind) :
                     j \in {MinOf(at)} }) :
          at \in {{j \in i..Len(s) : patternAt(s, j, kind) > 0}} })

detectBrokenLocators(text) ==
    The({ dedupe(found) :
          found \in {matchAll(text, 1, "class") \o matchAll(text, 1, "id")
                       \o matchAll(text, 1, "xpath")} })

-----------------------------------------------------------------------------
(* ExecutorAgent                                                           *)

\* the subsequence of s at the positions in the set `keep`, in order
Pick(s, keep) ==
    [k \in 1..Cardinality(keep) |->
        s[CHOOSE i \in keep : Cardinality({j \in keep : j < i}) = k - 1]]

AlNum == Range(LowerCase) \cup Range(Digits)       \* [a-z0-9]

\* .replace(/[^a-z0-9]+/g, '-') on a lower-cased text
collapse(low) ==
    Pick([i \in DOMAIN low |-> IF low[i] \in AlNum THEN low[i] ELSE "-"],
         {i \in DOMAIN low : low[i] \in AlNum \/ i = 1 \/ low[i - 1] \in AlNum})

\* .replace(/^-|-$/g, '') on a text whose separators are single
stripDashes(col) ==
    SubSeq(col,
           IF col # <<>> /\ col[1] = "-" THEN 2 ELSE 1,
           IF col # <<>> /\ col[Len(col)] = "-" THEN Len(col) - 1 ELSE Len(col))

\* findEvidenceFile: the slug of a test title
slugOf(testTitle) == stripDashes(collapse(toLowerCase(testTitle)))

SlugPrefix == 15

\* path.basename(f, '.json')
baseName(f) ==
    IF Len(f) > 5 /\ OccursAt(f, Chars(".json"), Len(f) - 4)
    THEN SubSeq(f, 1, Len(f) - 5)
    ELSE f

fuzzyMatch(slug, base) ==
    \/ startsWith(slug, base)
    \/ startsWith(base, slice(slug, SlugPrefix))

firstOr0(S) == IF S = {} THEN 0 ELSE MinOf(S)

\* findEvidenceFile for a slug.  dir is the listing of test-results/evidence: a
\* sequence of [name |-> file name, data |-> the parsed content, None when the
\* file does not parse].  The result is the index of the file in dir, 0 for null.
findBySlug(slug, dir) ==
    IF \E i \in DOMAIN dir : dir[i].name = slug \o Chars(".json")
    THEN MinOf({i \in DOMAIN dir : dir[i].name = slug \o Chars(".json")})
    ELSE firstOr0({i \in DOMAIN dir : fuzzyMatch(slug, baseName(dir[i].name))})

findEvidenceFile(testTitle, dir) == findBySlug(slugOf(testTitle), dir)

\* a ?? b for strings, names and lists
orElse(a, b) == IF a = Null THEN b ELSE a
orElseName(a, b) == IF a = NoName THEN b ELSE a

\* the mutant of overlay: the values of the record win, the evidence file only
\* fills what the record does not have
overlay_ownFirst(ft, evidence) ==
    [ft EXCEPT
       !.fullPageScreenshotPath =
           orElseName(ft.fullPageScreenshotPath, evidence.screenshotPath),
       !.domSnapshot = orElseName(ft.domSnapshot, evidence.domSnapshot)]

\* enrichWithEvidence, the overlay of a parsed evidence file
overlay(ft, evidence) ==
    [ft EXCEPT
       !.fullPageScreenshotPath =
           orElseName(evidence.screenshotPath, ft.fullPageScreenshotPath),
       !.consoleErrors =
           IF evidence.hasConsole THEN evidence.consoleErrors ELSE ft.consoleErrors,
       !.networkRequests =
           IF evidence.hasNetwork THEN evidence.networkRequests ELSE ft.networkRequests,
       !.domSnapshot = orElseName(evidence.domSnapshot, ft.domSnapshot)]

\* enrichWithEvidence, for one failure record and the file found for it (0: none);
\* data is None when readFileSync or JSON.parse throws
enrichFrom(ft, dir, i) ==
    IF i = 0 THEN ft
    ELSE IF dir[i].data = None THEN ft
    ELSE overlay(ft, dir[i].data)

enrichOne(ft, dir) == enrichFrom(ft, dir, findEvidenceFile(ft.title, dir))

\* the mutant of enrichWithEvidence: an evidence file serves one record only,
\* the first of the batch that matches it
enrichWithEvidence_consuming(failedTests, dir) ==
    [i \in DOMAIN failedTests |->
        IF \E j \in 1..(i - 1) :
              /\ findEvidenceFile(failedTests[j].title, dir) # 0
              /\ findEvidenceFile(failedTests[j].title, dir)
                    = findEvidenceFile(failedTests[i].title, dir)
        THEN failedTests[i]
        ELSE enrichOne(failedTests[i], dir)]

enrichWithEvidence(failedTests, dir) ==
    [i \in DOMAIN failedTests |-> enrichOne(failedTests[i], dir)]

\* The captured output is a sequence of segments: a character, or a complete
\* JSON object text (Doc), which stands for the characters of that object.
Ch(c)  == [k |-> "ch", c |-> c, v |-> None]
Doc(r) == [k |-> "doc", c |-> "{", v |-> r]

IsBlank(seg) == seg.k = "ch" /\ seg.c = " "

\* JSON.parse(raw.slice(jsonStart)): one object, then blanks only; None when
\* it throws
parseFrom(raw, jsonStart) ==
    IF /\ raw[jsonStart].k = "doc"
       /\ \A i \in (jsonStart + 1)..Len(raw) : IsBlank(raw[i])
    THEN raw[jsonStart].v
    ELSE None

\* parseJsonString: None for null
parseJsonString(raw) ==
    IF \A i \in DOMAIN raw : IsBlank(raw[i]) THEN None           \* !raw || !raw.trim()
    ELSE IF \A i \in DOMAIN raw : raw[i].c # "{" THEN None        \* jsonStart === -1
    ELSE parseFrom(raw, MinOf({i \in DOMAIN raw : raw[i].c = "{"}))

ErrMax == 500

\* a.contentType.startsWith('image/') && a.path
IsImage(a) == startsWith(Chars(a.contentType), Chars("image/")) /\ a.path # NoName
IsFullPage(a) == a.name = "full-page-screenshot" /\ a.path # NoName

\* attachments.find(p)?.path ?? null
findPath(atts, P(_)) ==
    LET at == {i \in DOMAIN atts : P(atts[i])} IN
    IF at = {} THEN NoName ELSE atts[MinOf(at)].path

\* visitSpec, for one test of a spec: the status that is counted
lastResultOf(test) ==
    IF test.results = <<>> THEN None ELSE test.results[Len(test.results)]

\* the mutant of statusOf: the first recorded attempt decides
statusOf_first(test) ==
    IF test.results = <<>> THEN test.status ELSE test.results[1].status

statusOf(test) ==
    IF test.results = <<>> THEN test.status ELSE test.results[Len(test.results)].status

\* lastResult?.error?.message ?? lastResult?.error?.stack ?? 'Unknown error'
errMsgOf(lastResult) ==
    IF lastResult = None THEN Chars("Unknown error")
    ELSE orElse(lastResult.message, orElse(lastResult.stack, Chars("Unknown error")))

attachmentsOf(lastResult) == IF lastResult = None THEN <<>> ELSE lastResult.attachments

\* visitSpec, for one test of a spec: the failure record that is pushed
failureRecord(spec, errMsg, atts, targetFile) ==
    [title |-> spec.title,
     file |-> orElseName(spec.file, targetFile),
     error |-> slice(errMsg, ErrMax),
     screenshotPath |-> findPath(atts, IsImage),
     fullPageScreenshotPath |-> findPath(atts, IsFullPage),
     consoleErrors |-> <<>>,
     networkRequests |-> <<>>,
     domSnapshot |-> NoName,
     rca |-> None]

failureOf(spec, test, targetFile) ==
    failureRecord(spec, errMsgOf(lastResultOf(test)), attachmentsOf(lastResultOf(test)),
                  targetFile)

\* The tests of a suite tree in the order visitSuite visits them: for each
\* suite its own specs, then its child suites.  Each entry is <<spec, test>>.
RECURSIVE visitSuite(_)
RECURSIVE visitSuites(_)
visitSpec(spec) == [i \in DOMAIN spec.tests |-> <<spec, spec.tests[i]>>]
RECURSIVE visitSpecs(_)
visitSpecs(specs) ==
    IF specs = <<>> THEN <<>> ELSE visitSpec(Head(specs)) \o visitSpecs(Tail(specs))
\* the mutant of visitSuite: the child suites are visited before the specs
visitSuite_childrenFirst(suite) == visitSuites(suite.suites) \o visitSpecs(suite.specs)

visitSuite(suite) == visitSpecs(suite.specs) \o visitSuites(suite.suites)
visitSuites(suites) ==
    IF suites = <<>> THEN <<>> ELSE visitSuite(Head(suites)) \o visitSuites(Tail(suites))

\* the positions of the visited tests whose counted status is in S
WithStatus(visited, S) == {i \in DOMAIN visited : statusOf(visited[i][2]) \in S}

NotFailed == {"passed", "skipped"}

\* the failure records, in the order of the visit
failuresOf(bad, targetFile) ==
    [k \in DOMAIN bad |-> failureOf(bad[k][1], bad[k][2], targetFile)]

\* the end of parseReport: the fallback to report.stats
tally(passed, failed, skipped, failedTests, stats) ==
    IF passed = 0 /\ failed = 0 /\ skipped = 0 /\ stats # None
    THEN [passed |-> stats.expected, failed |-> stats.unexpected,
          skipped |-> stats.skipped, failedTests |-> failedTests]
    ELSE [passed |-> passed, failed |-> failed, skipped |-> skipped,
          failedTests |-> failedTests]

\* parseReport after the visit of the suite tree
parseVisited(visited, stats, targetFile) ==
    tally(Cardinality(WithStatus(visited, {"passed"})),
          Cardinality(DOMAIN visited \ WithStatus(visited, NotFailed)),
          Cardinality(WithStatus(visited, {"skipped"})),
          failuresOf(Pick(visited, DOMAIN visited \ WithStatus(visited, NotFailed)),
                     targetFile),
          stats)

\* parseReport, for a report whose suites can be iterated
parseReport(rep, targetFile) ==
    parseVisited(visitSuites(rep.suites), rep.stats, targetFile)

\* What one invocation of the runner produced: exitedOk is execSync returning
\* (exit code 0); otherwise execSync threw and raw is err.stdout ?? ''.
RunOutcome(exitedOk, raw, dir) == [exitedOk |-> exitedOk, raw |-> raw, dir |-> dir]

Raised == [raised |-> TRUE]

\* executeTest, the return at the end
resultOf(filePath, type, p, dir) ==
    [raised |-> FALSE, filePath |-> filePath, type |-> type,
     passed |-> p.passed, failed |-> p.failed, skipped |-> p.skipped,
     total |-> p.passed + p.failed + p.skipped,
     failedTests |-> enrichWithEvidence(p.failedTests, dir),
     healAttempts |-> 0, ultimatelyPassed |-> p.failed = 0]

\* executeTest, the return of the branch if (!report)
unparsedResult(filePath, type, exitedOk) ==
    [raised |-> FALSE, filePath |-> filePath, type |-> type,
     passed |-> 0, failed |-> IF exitedOk THEN 0 ELSE 1, skipped |-> 0,
     total |-> 1, failedTests |-> <<>>, healAttempts |-> 0,
     ultimatelyPassed |-> exitedOk]

\* executeTest after parseJsonString.  The result is Raised when the call
\* rejects: parseReport iterates report.suites without checking that the parsed
\* object has the shape of a report.
executeParsed(filePath, type, outcome, rep) ==
    IF rep = None THEN unparsedResult(filePath, type, outcome.exitedOk)
    ELSE IF ~rep.suitesIterable THEN Raised
    ELSE resultOf(filePath, type, parseReport(rep, filePath), outcome.dir)

executeTest(filePath, type, outcome) ==
    executeParsed(filePath, type, outcome, parseJsonString(outcome.raw))

-----------------------------------------------------------------------------
(* RCAAgent                                                                *)

\* an optional number that is undefined
Undefined == -1

SlowMs == 3000
HttpErr == 400

hasApiError(networkRequests) ==
    \E i \in DOMAIN networkRequests :
        LET r == networkRequests[i] IN
        \/ (r.status # Undefined /\ r.status >= HttpErr)
        \/ (r.responseTime # Undefined /\ r.responseTime > SlowMs)

\* consoleErrors.join(' ')
RECURSIVE joinBlank(_)
joinBlank(list) ==
    IF list = <<>> THEN <<>>
    ELSE IF Len(list) = 1 THEN list[1]
    ELSE list[1] \o <<" ">> \o joinBlank(Tail(list))

isEnvironment(error) ==
    \/ includes(error, Chars("net::err"))
    \/ includes(error, Chars("econnrefused"))
    \/ includes(error, Chars("ssl"))
    \/ includes(error, Chars("timeout"))
    \/ includes(error, Chars("navigation timeout"))
    \/ includes(error, Chars("page crashed"))

isFrontend(consoleStr, consoleErrors) ==
    \/ includes(consoleStr, Chars("uncaught"))
    \/ includes(consoleStr, Chars("referenceerror"))
    \/ includes(consoleStr, Chars("typeerror"))
    \/ includes(consoleStr, Chars("syntaxerror"))
    \/ Len(consoleErrors) > 0

isData(error) ==
    \/ /\ includes(error, Chars("expected"))
       /\ \/ includes(error, Chars("received"))
          \/ includes(error, Chars("to be"))
          \/ includes(error, Chars("to equal"))
    \/ includes(error, Chars("wrong"))
    \/ includes(error, Chars("mismatch"))

\* the mutant of classifyIssue: the network log is looked at first
classifyIssue_backendFirst(failedTest, consoleErrors, networkRequests) ==
    LET error == toLowerCase(failedTest.error)
        consoleStr == toLowerCase(joinBlank(consoleErrors))
    IN IF hasApiError(networkRequests) THEN "Backend Issue"
       ELSE IF isEnvironment(error) THEN "Environment Issue"
       ELSE IF isFrontend(consoleStr, consoleErrors) THEN "Frontend Issue"
       ELSE IF isData(error) THEN "Data Issue"
       ELSE "UI Issue"

classifyIssue(failedTest, consoleErrors, networkRequests) ==
    LET error == toLowerCase(failedTest.error)
        consoleStr == toLowerCase(joinBlank(consoleErrors))
    IN IF isEnvironment(error) THEN "Environment Issue"
       ELSE IF hasApiError(networkRequests) THEN "Backend Issue"
       ELSE IF isFrontend(consoleStr, consoleErrors) THEN "Frontend Issue"
       ELSE IF isData(error) THEN "Data Issue"
       ELSE "UI Issue"

getAssignee(category) ==
    CASE category = "UI Issue" -> "QA Engineer"
      [] category = "Frontend Issue" -> "Frontend Developer"
      [] category = "Backend Issue" -> "Backend Developer"
      [] category = "Data Issue" -> "QA Engineer / Data Team"
      [] category = "Environment Issue" -> "DevOps / Environment Team"

ReasonMax == 200

\* error.split('\n')[0]; the line break is the character "\n"
firstLine(s) ==
    LET nl == {i \in DOMAIN s : s[i] = "\n"} IN
    IF nl = {} THEN s ELSE SubSeq(s, 1, MinOf(nl) - 1)

defaultReason(failedTest, category) ==
    LET errorFirst == firstLine(failedTest.error) IN
    Chars(category) \o Chars(" detected: ")
        \o SubSeq(errorFirst, 1, Min(Len(errorFirst), ReasonMax))

defaultFix(category) ==
    CASE category = "UI Issue" ->
             Chars("Verify element locators and page structure match the current DOM")
      [] category = "Frontend Issue" ->
             Chars("Check browser console errors and fix JavaScript runtime issues")
      [] category = "Backend Issue" ->
             Chars("Investigate API response codes and server-side error logs")
      [] category = "Data Issue" ->
             Chars("Review test data and expected values against current application state")
      [] category = "Environment Issue" ->
             Chars("Check application availability, network connectivity, and SSL certificates")

\* The generative call of getAIAnalysis: it rejects, or resolves with a text
\* that does not parse as JSON, or with an object whose reason and suggestedFix
\* may each be missing (Null).
RcaRaise == [kind |-> "raise", reason |-> Null, suggestedFix |-> Null]
RcaBadJson == [kind |-> "badjson", reason |-> Null, suggestedFix |-> Null]
RcaJson(reason, fix) == [kind |-> "json", reason |-> reason, suggestedFix |-> fix]

\* the mutant of getAIAnalysis: nothing catches a failed call, and the fields
\* of the result stay unset
getAIAnalysis_uncaught(failedTest, category, reply) ==
    [reason |-> orElse(reply.reason, IF reply.kind = "json"
                                     THEN defaultReason(failedTest, category) ELSE Null),
     suggestedFix |-> orElse(reply.suggestedFix, IF reply.kind = "json"
                                                 THEN defaultFix(category) ELSE Null)]

getAIAnalysis(failedTest, category, reply) ==
    IF reply.kind = "json"
    THEN [reason |-> orElse(reply.reason, defaultReason(failedTest, category)),
          suggestedFix |-> orElse(reply.suggestedFix, defaultFix(category))]
    ELSE [reason |-> defaultReason(failedTest, category),
          suggestedFix |-> defaultFix(category)]

ApiLogMax == 8

\* formatApiLog: the requests that are rendered (the first 8), empty for
\* 'No API calls captured'
formatApiLog(requests) == SubSeq(requests, 1, Min(Len(requests), ApiLogMax))

\* the mutant of analyze: a call that failed leaves the default category
analyze_replyDecides(failedTest, reply) ==
    LET category == IF reply.kind = "json"
                    THEN classifyIssue(failedTest, failedTest.consoleErrors,
                                       failedTest.networkRequests)
                    ELSE "UI Issue"
        aiAnalysis == getAIAnalysis(failedTest, category, reply)
    IN [testName |-> failedTest.title,
        category |-> category,
        reason |-> aiAnalysis.reason,
        consoleErrors |-> failedTest.consoleErrors,
        apiLog |-> formatApiLog(failedTest.networkRequests),
        suggestedFix |-> aiAnalysis.suggestedFix,
        assignTo |-> getAssignee(category),
        screenshotPath |-> orElseName(failedTest.fullPageScreenshotPath,
                                      failedTest.screenshotPath)]

\* analyze(failedTest, null)
analyze(failedTest, reply) ==
    LET consoleErrors == failedTest.consoleErrors
        networkRequests == failedTest.networkRequests
        screenshotPath == orElseName(failedTest.fullPageScreenshotPath,
                                     failedTest.screenshotPath)
        category == classifyIssue(failedTest, consoleErrors, networkRequests)
        aiAnalysis == getAIAnalysis(failedTest, category, reply)
    IN [testName |-> failedTest.title,
        category |-> category,
        reason |-> aiAnalysis.reason,
        consoleErrors |-> consoleErrors,
        apiLog |-> formatApiLog(networkRequests),
        suggestedFix |-> aiAnalysis.suggestedFix,
        assignTo |-> getAssignee(category),
        screenshotPath |-> screenshotPath]


-----------------------------------------------------------------------------
(* Runner reports of the model                                             *)

Res(status, message) ==
    [status |-> status, message |-> message, stack |-> Null, attachments |-> <<>>]
Test(status, rs) == [status |-> status, results |-> rs]
SpecOf(title, file, ts) == [title |-> Chars(title), file |-> file, tests |-> ts]
Suite(specs, suites) == [specs |-> specs, suites |-> suites]
Stats(e, u, s) == [expected |-> e, unexpected |-> u, skipped |-> s]
Report(suites, stats) == [suites |-> suites, suitesIterable |-> TRUE, stats |-> stats]
\* a JSON object whose "suites" member is not a list ({"suites": 1})
IllShaped == [suites |-> <<>>, suitesIterable |-> FALSE, stats |-> None]

SpecFile == "tests/login.spec.ts"

PassingTest == Test("passed", <<Res("passed", Null)>>)
FailingTest == Test("failed", <<Res("failed", Chars("locator.click: Timeout 5000ms exceeded"))>>)

AllPass == Report(<<Suite(<<SpecOf("logs in", SpecFile, <<PassingTest>>)>>, <<>>)>>,
                  Stats(1, 0, 0))
OneFails == Report(<<Suite(<<SpecOf("logs in", SpecFile, <<PassingTest>>),
                             SpecOf("shows error", SpecFile, <<FailingTest>>)>>, <<>>)>>,
                   Stats(1, 1, 0))
StatsOnly == Report(<<>>, Stats(0, 2, 0))

NoEvidence == <<>>

\* what a re-execution of the healer can produce
HealRuns ==
    { RunOutcome(TRUE,  <<Doc(AllPass)>>, NoEvidence),
      RunOutcome(FALSE, <<Doc(OneFails)>>, NoEvidence),
      RunOutcome(FALSE, <<Doc(StatsOnly)>>, NoEvidence),
      RunOutcome(FALSE, <<>>, NoEvidence),
      RunOutcome(TRUE,  <<Ch("{"), Doc(AllPass)>>, NoEvidence),
      RunOutcome(TRUE,  <<Doc(IllShaped)>>, NoEvidence) }

-----------------------------------------------------------------------------
(* Inputs of the healer                                                    *)

\* expressions handed to healLocator: the three detected forms, and
\* expressions without the "page.locator(" prefix
LocatorInputs ==
    { Chars("page.locator('.submit-btn')"),
      Chars("page.locator(\"#main\")"),
      Chars("page.locator('//ul/li[2]')"),
      Chars("$('.Nav-Item')"),
      Chars("$x(\"//*[@id='main']\")"),
      Chars("$x(\"//div[text()='Continue']\")"),
      Chars("$x('//button[2]')"),
      Chars("$$('ab')"),
      Chars("frames[0]") }

AiLong == [raise |-> FALSE, text |-> Chars("page.") \o [i \in 1..ReplyMax |-> "x"]]

AiReplies ==
    { AiRaise, AiText(""), AiText("Try getByRole instead"),
      AiText(" page.getByRole('button') "), AiLong }

\* test sources on disk
Sources ==
    { Chars("await page.getByTestId('login').click();"),
      Chars("await page.locator('.submit-btn').click();"),
      Chars("page.locator('.a-b'); page.locator(\"#main\"); page.locator('.a-b');"),
      Chars("page.locator(\"//div[2]/span\"); page.locator('//button[1]');"),
      Chars("page.locator(\"//div[text()='Continue']\").click();") }

MaxBatch == 2
MaxHeal == 3

RECURSIVE SeqsUpTo(_, _)
SeqsUpTo(S, n) ==
    IF n = 0 THEN {<<>>}
    ELSE LET shorter == SeqsUpTo(S, n - 1) IN
         shorter \cup {Append(q, x) : q \in {r \in shorter : Len(r) = n - 1}, x \in S}

RECURSIVE joinSemi(_)
joinSemi(list) ==
    IF list = <<>> THEN <<>> ELSE list[1] \o <<";">> \o joinSemi(Tail(list))

-----------------------------------------------------------------------------
(* HealerAgent.healFile                                                    *)

EmptyReport == [totalLocators |-> 0, healed |-> 0, failed |-> 0, results |-> <<>>]

\* where healFile returns to
AfterHealFile == IF hcaller = "loop" THEN "rerun" ELSE "healed"

Scanned(text, found) ==
    /\ content' = text
    /\ brokenLocators' = found
    /\ hlog' = Append(hlog, "pass")
    /\ IF found = <<>>
       THEN /\ report' = EmptyReport
            /\ hpc' = AfterHealFile
            /\ UNCHANGED <<li, healedContent, results>>
       ELSE /\ results' = <<>>
            /\ healedContent' = text
            /\ li' = 1
            /\ hpc' = "healLoop"
            /\ UNCHANGED report

\* readFileSync, detectBrokenLocators and the early return
HealFileStart ==
    /\ hpc = "healFile"
    /\ \E found \in {detectBrokenLocators(files[hfile])} : Scanned(files[hfile], found)
    /\ UNCHANGED <<mode, files, hfile, hcaller, maxAttempts, attempt, initialResult,
                   current, lastRerun, retval, execVars, rcaVars, orchVars, gateVars>>

\* the body of the for loop, given what healLocator produced for `locator`
Healed(locator, result) ==
    IF result.raised
    THEN /\ hpc' = "raised"
         /\ UNCHANGED <<li, healedContent, results>>
    ELSE /\ results' = Append(results, result)
         /\ healedContent' = IF result.success
                             THEN replace(healedContent, locator, result.healed)
                             ELSE healedContent
         /\ li' = li + 1
         /\ hpc' = "healLoop"

\* the mutant of HealStep: the file is written as soon as a locator is healed
HealStep_writesEach ==
    /\ hpc = "healLoop"
    /\ li <= Len(brokenLocators)
    /\ \E ai \in AiReplies :
         \E result \in {healLocator(brokenLocators[li], ai)} :
             /\ Healed(brokenLocators[li], result)
             /\ IF ~result.raised /\ result.success
                THEN /\ files' = [files EXCEPT ![hfile] = healedContent']
                     /\ hlog' = Append(hlog, "write")
                ELSE UNCHANGED <<files, hlog>>
    /\ UNCHANGED <<mode, hfile, hcaller, maxAttempts, attempt, initialResult,
                   current, lastRerun, retval, content, brokenLocators, report,
                   execVars, rcaVars, orchVars, gateVars>>

\* one iteration of the for loop; the tier-3 call is answered by `ai`
HealStep ==
    /\ hpc = "healLoop"
    /\ li <= Len(brokenLocators)
    /\ \E ai \in AiReplies :
         \E result \in {healLocator(brokenLocators[li], ai)} :
             Healed(brokenLocators[li], result)
    /\ UNCHANGED <<mode, files, hfile, hcaller, maxAttempts, attempt, initialResult,
                   current, lastRerun, retval, content, brokenLocators, report, hlog,
                   execVars, rcaVars, orchVars, gateVars>>

\* after the loop: the conditional write and the report
HealFileEnd ==
    /\ hpc = "healLoop"
    /\ li > Len(brokenLocators)
    /\ IF healedContent # content
       THEN /\ files' = [files EXCEPT ![hfile] = healedContent]
            /\ hlog' = Append(hlog, "write")
       ELSE UNCHANGED <<files, hlog>>
    /\ report' = [totalLocators |-> Len(brokenLocators),
                  healed |-> Cardinality({i \in DOMAIN results : results[i].success}),
                  failed |-> Cardinality({i \in DOMAIN results : ~results[i].success}),
                  results |-> results]
    /\ hpc' = AfterHealFile
    /\ UNCHANGED <<mode, hfile, hcaller, maxAttempts, attempt, initialResult, current,
                   lastRerun, retval, content, brokenLocators, li, healedContent,
                   results, execVars, rcaVars, orchVars, gateVars>>

-----------------------------------------------------------------------------
(* HealerAgent.healAndRerun                                                *)

\* the mutant of LoopCondition: the bound is tested with <=
LoopCondition_offByOne == current.failed > 0 /\ attempt <= maxAttempts

\* while (current.failed > 0 && attempt < maxAttempts)
LoopCondition == current.failed > 0 /\ attempt < maxAttempts

LoopEnter ==
    /\ hpc = "loop"
    /\ LoopCondition
    /\ attempt' = attempt + 1
    /\ hpc' = "healFile"
    /\ UNCHANGED <<mode, files, hfile, hcaller, maxAttempts, initialResult, current,
                   lastRerun, retval, content, brokenLocators, li, healedContent,
                   results, report, hlog, execVars, rcaVars, orchVars, gateVars>>

LoopExit ==
    /\ hpc = "loop"
    /\ ~LoopCondition
    /\ hpc' = "after"
    /\ UNCHANGED <<mode, files, hfile, hcaller, maxAttempts, attempt, initialResult,
                   current, lastRerun, retval, content, brokenLocators, li,
                   healedContent, results, report, hlog, execVars, rcaVars, orchVars, gateVars>>

\* the mutant of Rerun: healAttempts is not recorded on the new result
Rerun_uncounted(r) ==
    /\ hlog' = Append(hlog, "exec")
    /\ IF r.raised
       THEN /\ hpc' = "raised"
            /\ UNCHANGED <<current, lastRerun>>
       ELSE /\ current' = r
            /\ lastRerun' = r
            /\ hpc' = IF r.failed = 0 THEN "after" ELSE "loop"

\* the mutant of Rerun: the new result is not assigned to current, and the loop goes on
Rerun_stale(r) ==
    /\ hlog' = Append(hlog, "exec")
    /\ IF r.raised
       THEN /\ hpc' = "raised"
            /\ UNCHANGED <<current, lastRerun>>
       ELSE /\ current' = current
            /\ lastRerun' = r
            /\ hpc' = "loop"

\* current = await executor.executeTest(generatedTest); current.healAttempts = attempt;
\* if (current.failed === 0) break.   r is what executeTest returned.
Rerun(r) ==
    /\ hlog' = Append(hlog, "exec")
    /\ IF r.raised
       THEN /\ hpc' = "raised"
            /\ UNCHANGED <<current, lastRerun>>
       ELSE /\ current' = [r EXCEPT !.healAttempts = attempt]
            /\ lastRerun' = r
            /\ hpc' = IF r.failed = 0 THEN "after" ELSE "loop"

ReExecute ==
    /\ hpc = "rerun"
    /\ \E outcome \in HealRuns :
         \E r \in {executeTest(hfile, "ui", outcome)} : Rerun(r)
    /\ ranOn' = [ranOn EXCEPT ![hfile] = files[hfile]]
    /\ UNCHANGED <<mode, files, hfile, hcaller, maxAttempts, attempt, initialResult,
                   retval, content, brokenLocators, li, healedContent, results, report,
                   erun, eres, rcaVars, orchVars, gateVars>>

\* current.ultimatelyPassed = current.failed === 0; return current
HealReturn ==
    /\ hpc = "after"
    /\ current' = [current EXCEPT !.ultimatelyPassed = (current.failed = 0)]
    /\ retval' = current'
    /\ hpc' = "returned"
    /\ UNCHANGED <<mode, files, hfile, hcaller, maxAttempts, attempt, initialResult,
                   lastRerun, content, brokenLocators, li, healedContent, results,
                   report, hlog, execVars, rcaVars, orchVars, gateVars>>

-----------------------------------------------------------------------------
(* Specifications of the healer                                            *)

NeverRan == ranOn = [f \in DOMAIN files |-> Null]

IdleExec == erun = None /\ eres = None /\ NeverRan

IdleRca == rtest = None /\ rres = None /\ rreply = None /\ rprev = None

IdleGate ==
    /\ gateNo = 1
    /\ gpc = "idle"
    /\ timer = "unset"
    /\ choice = Null
    /\ resolved = <<>>
    /\ glog = <<>>

IdleOrch ==
    /\ opc = "idle"
    /\ run = None
    /\ tests = <<>>
    /\ autoApprove = FALSE
    /\ oi = 0
    /\ failing = <<>>
    /\ updated = <<>>
    /\ gate2Seen = <<>>
    /\ reported = <<>>
    /\ jira = NoName
    /\ exitCode = <<>>

IdleHeal ==
    /\ hfile = SpecFile
    /\ hcaller = "none"
    /\ hpc = "idle"
    /\ attempt = 0
    /\ initialResult = None
    /\ current = None
    /\ lastRerun = None
    /\ retval = None
    /\ content = <<>>
    /\ brokenLocators = <<>>
    /\ li = 1
    /\ healedContent = <<>>
    /\ results = <<>>
    /\ report = None
    /\ hlog = <<>>

\* healLocator and the loop of healFile, for any list of expressions
InitLocator ==
    /\ mode = "locator"
    /\ brokenLocators \in SeqsUpTo(LocatorInputs, MaxBatch) \ {<<>>}
    /\ content = joinSemi(brokenLocators)
    /\ files = [f \in {SpecFile} |-> content]
    /\ hfile = SpecFile
    /\ hcaller = "unit"
    /\ hpc = "healLoop"
    /\ maxAttempts = 0
    /\ attempt = 0
    /\ initialResult = None
    /\ current = None
    /\ lastRerun = None
    /\ retval = None
    /\ li = 1
    /\ healedContent = content
    /\ results = <<>>
    /\ report = None
    /\ hlog = <<"pass">>
    /\ IdleExec
    /\ IdleRca
    /\ IdleOrch
    /\ IdleGate

NextLocator == HealStep \/ HealFileEnd

SpecLocator == InitLocator /\ [][NextLocator]_vars

\* healAndRerun on a test file, for any initial result and any bound
InitialResults ==
    {r \in {executeTest(SpecFile, "ui", outcome) : outcome \in HealRuns} : ~r.raised}

InitHeal ==
    /\ mode = "heal"
    /\ files \in [{SpecFile} -> Sources]
    /\ hfile = SpecFile
    /\ hcaller = "loop"
    /\ hpc = "loop"
    /\ maxAttempts \in 0..MaxHeal
    /\ attempt = 0
    /\ initialResult \in InitialResults
    /\ current = initialResult
    /\ lastRerun = None
    /\ retval = None
    /\ content = <<>>
    /\ brokenLocators = <<>>
    /\ li = 1
    /\ healedContent = <<>>
    /\ results = <<>>
    /\ report = None
    /\ hlog = <<>>
    /\ IdleExec
    /\ IdleRca
    /\ IdleOrch
    /\ IdleGate

NextHeal ==
    \/ LoopEnter
    \/ LoopExit
    \/ HealFileStart
    \/ HealStep
    \/ HealFileEnd
    \/ ReExecute
    \/ HealReturn

SpecHeal == InitHeal /\ [][NextHeal]_vars

\* the steps of healAndRerun are run to completion: nothing suspends it for ever
SpecHealFair == SpecHeal /\ WF_vars(NextHeal)


-----------------------------------------------------------------------------
(* ExecutorAgent.executeTest on its own                                    *)

MaxAttempts == 2

Att(name, contentType, path) == [name |-> name, contentType |-> contentType, path |-> path]

LongMessage == [i \in 1..(ErrMax + 1) |-> "e"]

\* the attempts a test can record
ResultKinds ==
    { Res("passed", Null),
      Res("failed", Chars("expect(received).toBe(expected)")),
      Res("skipped", Null),
      [status |-> "timedOut", message |-> Null, stack |-> Chars("Error: Test timeout"),
       attachments |-> <<Att("trace", "application/zip", "trace.zip"),
                         Att("screenshot", "image/png", "shot.png"),
                         Att("full-page-screenshot", "image/png", "full.png")>>],
      [status |-> "interrupted", message |-> LongMessage, stack |-> Null,
       attachments |-> <<Att("screenshot", "image/png", NoName)>>] }

OneTest(status, rs) ==
    Report(<<Suite(<<SpecOf("shows error", NoName, <<Test(status, rs)>>)>>, <<>>)>>, None)

\* a tree with nested suites, a spec without tests and a suite without specs
Nested ==
    Report(<<Suite(<<SpecOf("logs in", SpecFile, <<PassingTest, FailingTest>>),
                     SpecOf("empty", SpecFile, <<>>)>>,
                   <<Suite(<<>>, <<Suite(<<SpecOf("Shows Error!", SpecFile,
                                                  <<FailingTest>>)>>, <<>>)>>)>>),
             Suite(<<SpecOf("skips", SpecFile, <<Test("skipped", <<>>)>>)>>, <<>>)>>,
           Stats(1, 2, 1))

ExecReports ==
    {OneTest(st, rs) : st \in {"passed", "failed"}, rs \in SeqsUpTo(ResultKinds, MaxAttempts)}
      \cup {AllPass, OneFails, StatsOnly, Nested, Report(<<>>, None), IllShaped}

\* the captured output: nothing, text without an object, or an object with
\* text before and after it
Preambles == {<<>>, <<Ch(" ")>>, <<Ch("x"), Ch(" ")>>, <<Ch("{")>>}
Trailers == {<<>>, <<Ch(" ")>>, <<Ch("x")>>}
RawOutputs ==
    {<<Doc(r)>> : r \in ExecReports}
      \cup {pre \o <<Doc(r)>> \o post :
              pre \in Preambles, post \in Trailers, r \in {OneFails, IllShaped}}
      \cup {pre \o post : pre \in Preambles, post \in Trailers}

Evidence(shot, hasConsole, hasNetwork) ==
    [screenshotPath |-> shot, hasConsole |-> hasConsole,
     consoleErrors |-> <<Chars("TypeError: x is undefined")>>,
     hasNetwork |-> hasNetwork,
     networkRequests |-> <<[method |-> "GET", url |-> "/api/login", status |-> 500,
                            responseTime |-> 120]>>,
     domSnapshot |-> "dom.html"]

\* listings of test-results/evidence
EvidenceDirs ==
    { NoEvidence,
      <<[name |-> Chars("shows-error.json"), data |-> Evidence("evidence.png", TRUE, TRUE)]>>,
      <<[name |-> Chars("shows.json"), data |-> None],
        [name |-> Chars("shows-error-on-bad-login.json"),
         data |-> Evidence(NoName, FALSE, TRUE)]>> }

ExecRuns ==
    {RunOutcome(ok, raw, dir) :
        ok \in BOOLEAN, raw \in RawOutputs, dir \in EvidenceDirs}

InitExec ==
    /\ mode = "exec"
    /\ files = [f \in {SpecFile} |-> <<>>]
    /\ maxAttempts = 0
    /\ IdleHeal
    /\ erun \in ExecRuns
    /\ eres = None
    /\ NeverRan
    /\ IdleRca
    /\ IdleOrch
    /\ IdleGate

\* one call of executeTest
Execute ==
    /\ mode = "exec"
    /\ eres = None
    /\ \E type \in {"ui", "api"} : eres' = executeTest(SpecFile, type, erun)
    /\ ranOn' = [ranOn EXCEPT ![SpecFile] = files[SpecFile]]
    /\ UNCHANGED <<mode, healVars, erun, rcaVars, orchVars, gateVars>>

NextExec == Execute

SpecExec == InitExec /\ [][NextExec]_vars

-----------------------------------------------------------------------------
(* RCAAgent.analyze on its own                                             *)

Req(status, responseTime) ==
    [method |-> "GET", url |-> "/api/login", status |-> status, responseTime |-> responseTime]

\* error texts of failure records
RcaErrors ==
    { Chars("locator.click: element is not visible"),
      Chars("page.goto: net::ERR_CONNECTION_REFUSED at http://localhost:3000"),
      Chars("connect ECONNREFUSED 127.0.0.1:3000"),
      Chars("Timeout 5000ms exceeded"),
      Chars("expect(received).toBe(expected)\nExpected: 1"),
      Chars("Expected total mismatch"),
      Chars("Unknown error") }

RcaConsoles ==
    { <<>>, <<Chars("Uncaught TypeError: x is undefined")>>,
      <<Chars("Failed to load resource"), Chars("warning")>> }

RcaNetworks ==
    { <<>>, <<Req(200, 120)>>, <<Req(200, 120), Req(500, 80)>>, <<Req(404, Undefined)>>,
      <<Req(Undefined, SlowMs + 1)>>, <<Req(HttpErr - 1, SlowMs)>> }

RcaReplies ==
    { RcaRaise, RcaBadJson, RcaJson(Null, Null),
      RcaJson(Chars("The API returned 500"), Chars("Restart the service")) }

RcaTest(error, console, network) ==
    [title |-> Chars("shows error"), file |-> SpecFile, error |-> error,
     screenshotPath |-> NoName, fullPageScreenshotPath |-> NoName,
     consoleErrors |-> console, networkRequests |-> network,
     domSnapshot |-> NoName, rca |-> None]

InitRca ==
    /\ mode = "rca"
    /\ files = [f \in {SpecFile} |-> <<>>]
    /\ maxAttempts = 0
    /\ IdleHeal
    /\ IdleExec
    /\ rtest \in {RcaTest(e, c, n) : e \in RcaErrors, c \in RcaConsoles, n \in RcaNetworks}
    /\ rres = None
    /\ rreply = None
    /\ rprev = None
    /\ IdleOrch
    /\ IdleGate

\* one call of analyze(failedTest, null); the generative call answers `reply`
Analyze ==
    /\ mode = "rca"
    /\ rres = None
    /\ \E reply \in RcaReplies : rreply' = reply /\ rres' = analyze(rtest, reply)
    /\ UNCHANGED <<mode, healVars, execVars, rtest, rprev, orchVars, gateVars>>

\* the caller's loop goes to its next failure record (for (const ft of
\* result.failedTests)): another record, with its own title and evidence paths
AnalyzeNext ==
    /\ mode = "rca"
    /\ rres # None
    /\ rprev = None
    /\ rprev' = [failedTest |-> rtest, category |-> rres.category]
    /\ \E e \in RcaErrors, c \in RcaConsoles, n \in RcaNetworks :
          rtest' = [RcaTest(e, c, n) EXCEPT !.title = Chars("logs in"),
                                            !.screenshotPath = "test-failed-1.png"]
    /\ rres' = None
    /\ rreply' = None
    /\ UNCHANGED <<mode, healVars, execVars, orchVars, gateVars>>

NextRca == Analyze \/ AnalyzeNext

SpecRca == InitRca /\ [][NextRca]_vars

-----------------------------------------------------------------------------
(* ApprovalGate.request                                                    *)

\* what the person at the prompt does: a typed line, or nothing until the timer fires
Answer(s) == [timeout |-> FALSE, choice |-> Chars(s)]
GateTimeout == [timeout |-> TRUE, choice |-> <<>>]

buildResult(gate, decision, approvedBy) ==
    [gate |-> gate, decision |-> decision, approvedBy |-> approvedBy]

promptUser(gate, answer) ==
    IF answer.timeout THEN buildResult(gate, "timeout", "TIMEOUT")
    ELSE IF toUpperCase(trim(answer.choice)) = <<"R">>
    THEN buildResult(gate, "rejected", "Human Reviewer")
    ELSE buildResult(gate, "approved", "Human Reviewer")

request(gate, auto, answer) ==
    IF auto THEN buildResult(gate, "approved", "QIA Auto-Approve")
    ELSE promptUser(gate, answer)

\* the mutant of Answered: the callback of the first question leaves the timer armed
Answered_timerKept(line) ==
    /\ gpc = "asked"
    /\ choice' = line
    /\ glog' = IF toUpperCase(trim(line)) = <<"M">>
               THEN glog \o <<"answer", "question">>
               ELSE Append(glog, "answer")
    /\ IF toUpperCase(trim(line)) = <<"R">>
       THEN /\ gpc' = "settled"
            /\ resolved' = Append(resolved, buildResult(gateNo, "rejected", "Human Reviewer"))
       ELSE IF toUpperCase(trim(line)) = <<"M">>
       THEN /\ gpc' = "notes"
            /\ UNCHANGED resolved
       ELSE /\ gpc' = "settled"
            /\ resolved' = Append(resolved, buildResult(gateNo, "approved", "Human Reviewer"))
    /\ UNCHANGED timer

\* the lines that are typed at the prompt
GateLines ==
    { <<>>, Chars("a"), Chars("A"), Chars("approve"), Chars("y"), Chars("no"),
      Chars("r"), Chars("R"), Chars(" r "), Chars("reject"), Chars("rm"),
      Chars("m"), Chars("M"), Chars(" m"), Chars("modify") }

\* request up to its return or to the first question of promptUser: with auto-approve
\* the result is returned at once, otherwise the timer is set and the choice is asked
Request ==
    /\ gpc = "idle"
    /\ IF autoApprove
       THEN /\ resolved' = Append(resolved, buildResult(gateNo, "approved", "QIA Auto-Approve"))
            /\ gpc' = "settled"
            /\ UNCHANGED <<timer, glog>>
       ELSE /\ timer' = "armed"
            /\ gpc' = "asked"
            /\ glog' = Append(glog, "question")
            /\ UNCHANGED resolved
    /\ UNCHANGED <<mode, healVars, execVars, rcaVars, orchVars, gateNo, choice>>

\* the callback of setTimeout: rl.close(), resolve(buildResult(gate, 'timeout', ...))
TimerFires ==
    /\ timer = "armed"
    /\ timer' = "fired"
    /\ gpc' = "settled"
    /\ resolved' = Append(resolved, buildResult(gateNo, "timeout", "TIMEOUT"))
    /\ glog' = Append(glog, "deadline")
    /\ UNCHANGED <<mode, healVars, execVars, rcaVars, orchVars, gateNo, choice>>

\* the deadline of a timer that clearTimeout cancelled: no callback runs
DeadlinePasses ==
    /\ timer = "cleared"
    /\ "deadline" \notin Range(glog)
    /\ glog' = Append(glog, "deadline")
    /\ UNCHANGED <<mode, healVars, execVars, rcaVars, orchVars, gateNo, gpc, timer, choice,
                   resolved>>

\* the callback of the first rl.question, for the line that was typed
Answered(line) ==
    /\ gpc = "asked"
    /\ timer' = "cleared"
    /\ choice' = line
    /\ glog' = IF toUpperCase(trim(line)) = <<"M">>
               THEN glog \o <<"answer", "question">>
               ELSE Append(glog, "answer")
    /\ IF toUpperCase(trim(line)) = <<"R">>
       THEN /\ gpc' = "settled"
            /\ resolved' = Append(resolved, buildResult(gateNo, "rejected", "Human Reviewer"))
       ELSE IF toUpperCase(trim(line)) = <<"M">>
       THEN /\ gpc' = "notes"
            /\ UNCHANGED resolved
       ELSE /\ gpc' = "settled"
            /\ resolved' = Append(resolved, buildResult(gateNo, "approved", "Human Reviewer"))

AnswerChoice ==
    /\ \E line \in GateLines : Answered(line)
    /\ UNCHANGED <<mode, healVars, execVars, rcaVars, orchVars, gateNo>>

\* the callback of the second rl.question (the notes), asked after the choice M
AnswerNotes ==
    /\ gpc = "notes"
    /\ gpc' = "settled"
    /\ resolved' = Append(resolved, buildResult(gateNo, "approved", "Human Reviewer"))
    /\ glog' = Append(glog, "notes")
    /\ UNCHANGED <<mode, healVars, execVars, rcaVars, orchVars, gateNo, timer, choice>>

InitGate ==
    /\ mode = "gate"
    /\ files = [f \in {SpecFile} |-> <<>>]
    /\ maxAttempts = 0
    /\ IdleHeal
    /\ IdleExec
    /\ IdleRca
    /\ opc = "idle"
    /\ run = None
    /\ tests = <<>>
    /\ autoApprove \in BOOLEAN
    /\ oi = 0
    /\ failing = <<>>
    /\ updated = <<>>
    /\ gate2Seen = <<>>
    /\ reported = <<>>
    /\ jira = NoName
    /\ exitCode = <<>>
    /\ gateNo \in 1..3
    /\ gpc = "idle"
    /\ timer = "unset"
    /\ choice = Null
    /\ resolved = <<>>
    /\ glog = <<>>

NextGate == Request \/ TimerFires \/ DeadlinePasses \/ AnswerChoice \/ AnswerNotes

SpecGate == InitGate /\ [][NextGate]_vars


-----------------------------------------------------------------------------
(* Orchestrator.run                                                        *)

CartFile == "tests/cart.spec.ts"
TestFiles == {SpecFile, CartFile}

GeneratedTest(filePath) == [filePath |-> filePath, type |-> "ui"]

\* what generateTests can return
GeneratedSets ==
    { <<>>, <<GeneratedTest(SpecFile)>>, <<GeneratedTest(SpecFile), GeneratedTest(CartFile)>> }

CleanSource == Chars("await page.getByTestId('login').click();")
OrchSources == {CleanSource, Chars("await page.locator('.submit-btn').click();")}

\* what the first execution of a generated test can produce
OrchRuns ==
    { RunOutcome(TRUE,  <<Doc(AllPass)>>, NoEvidence),
      RunOutcome(FALSE, <<Doc(OneFails)>>, NoEvidence),
      RunOutcome(FALSE, <<>>, NoEvidence),
      RunOutcome(TRUE,  <<Doc(IllShaped)>>, NoEvidence) }

Answers == {Answer("a"), Answer(" r "), Answer("M"), GateTimeout}

OrchReplies == {RcaRaise, RcaJson(Chars("The API returned 500"), Null)}

MaxOrchHeal == 1

NewRun ==
    [status |-> "running", phases |-> <<>>, gates |-> <<>>, generatedTests |-> <<>>,
     executionResults |-> <<>>, pullRequest |-> NoName, jiraUpdated |-> FALSE,
     completed |-> FALSE]

\* runPhase: the phase record is pushed, then closed with the outcome of fn
PhaseStart(r, phase) ==
    [r EXCEPT !.phases = Append(@, [phase |-> phase, status |-> "running"])]
PhaseEnd(r, status) == [r EXCEPT !.phases[Len(r.phases)].status = status]
PhaseDone(r, phase) == PhaseEnd(PhaseStart(r, phase), "completed")

\* the mutant of Fatal: the catch block leaves the status of the run as it was
Fatal_statusKept(r) == [r EXCEPT !.completed = TRUE]

\* the catch block of run
Fatal(r) == [r EXCEPT !.status = "failed", !.completed = TRUE]
PhaseFailed(r, phase) == Fatal(PhaseEnd(PhaseStart(r, phase), "failed"))

\* the mutant of executeAll: the results are pushed in the reverse order
executeAll_reversed(generatedTests, outcomes) ==
    [i \in DOMAIN generatedTests |->
        executeTest(generatedTests[Len(generatedTests) + 1 - i].filePath,
                    generatedTests[Len(generatedTests) + 1 - i].type,
                    outcomes[Len(generatedTests) + 1 - i])]

executeAll(generatedTests, outcomes) ==
    [i \in DOMAIN generatedTests |->
        executeTest(generatedTests[i].filePath, generatedTests[i].type, outcomes[i])]

\* ft.rca = await this.rcaAgent.analyze(ft, null), for every failure of a result
withRca(result, reply) ==
    [result EXCEPT !.failedTests =
        [k \in DOMAIN result.failedTests |->
            [result.failedTests[k] EXCEPT !.rca = analyze(result.failedTests[k], reply)]]]

\* a phase that is a single call of another agent
SimplePhase(phase, next) ==
    /\ opc = phase
    /\ \E ok \in BOOLEAN :
         IF ok THEN /\ run' = PhaseDone(run, phase)
                    /\ opc' = next
               ELSE /\ run' = PhaseFailed(run, phase)
                    /\ opc' = "done"
    /\ UNCHANGED <<mode, healVars, execVars, rcaVars, tests, autoApprove, oi, failing,
                   updated, gate2Seen, reported, jira, exitCode, gateVars>>

ReadTicket == SimplePhase("read-ticket", "scan-framework")
ScanFramework == SimplePhase("scan-framework", "build-strategy")
BuildStrategy == SimplePhase("build-strategy", "gate1")

\* the mutant of Decided: the decision of the gate is not tested
Decided_ignored(res, next) ==
    /\ run' = [run EXCEPT !.gates = Append(@, res)]
    /\ opc' = next

Decided(res, next) ==
    /\ run' = [run EXCEPT !.gates = Append(@, res),
                          !.status = IF res.decision # "approved" THEN "cancelled" ELSE @]
    /\ opc' = IF res.decision # "approved" THEN "done" ELSE next

Gate(gate, at, next) ==
    /\ opc = at
    /\ \E answer \in Answers :
         \E res \in {request(gate, autoApprove, answer)} : Decided(res, next)
    /\ gate2Seen' = IF gate = 2 THEN run.executionResults ELSE gate2Seen
    /\ UNCHANGED <<mode, healVars, execVars, rcaVars, tests, autoApprove, oi, failing,
                   updated, reported, jira, exitCode, gateVars>>

Gate1 == Gate(1, "gate1", "generate-tests")
Gate2 == Gate(2, "gate2", "gate3")
Gate3 == Gate(3, "gate3", "git-push")

\* engineer.generateTests writes the test files and returns their descriptions
GenerateTests ==
    /\ opc = "generate-tests"
    /\ \/ /\ \E ts \in GeneratedSets, src \in OrchSources :
               /\ tests' = ts
               /\ files' = [f \in TestFiles |-> IF f = SpecFile THEN src ELSE CleanSource]
               /\ run' = [PhaseDone(run, "generate-tests") EXCEPT !.generatedTests = ts]
          /\ opc' = "execute-tests"
       \/ /\ run' = PhaseFailed(run, "generate-tests")
          /\ opc' = "done"
          /\ UNCHANGED <<tests, files>>
    /\ UNCHANGED <<mode, hfile, hcaller, hpc, maxAttempts, attempt, initialResult, current,
                   lastRerun, retval, content, brokenLocators, li, healedContent, results,
                   report, hlog, execVars, rcaVars, autoApprove, oi, failing, updated,
                   gate2Seen, reported, jira, exitCode, gateVars>>

ExecutedAll(executionResults) ==
    IF \E i \in DOMAIN executionResults : executionResults[i].raised
    THEN /\ run' = PhaseFailed(run, "execute-tests")
         /\ opc' = "done"
    ELSE /\ run' = [PhaseDone(run, "execute-tests") EXCEPT
                       !.executionResults = executionResults]
         /\ opc' = "rca"

ExecuteTests ==
    /\ opc = "execute-tests"
    /\ \E outcomes \in [DOMAIN tests -> OrchRuns] :
         \E executionResults \in {executeAll(tests, outcomes)} :
             ExecutedAll(executionResults)
    /\ ranOn' = [f \in DOMAIN files |->
                    IF \E i \in DOMAIN tests : tests[i].filePath = f
                    THEN files[f] ELSE ranOn[f]]
    /\ UNCHANGED <<mode, healVars, erun, eres, rcaVars, tests, autoApprove, oi, failing,
                   updated, gate2Seen, reported, jira, exitCode, gateVars>>

\* Phase 6: skipped when no result has a failure record
RcaPhase ==
    /\ opc = "rca"
    /\ IF \E i \in DOMAIN run.executionResults : run.executionResults[i].failedTests # <<>>
       THEN \E reply \in OrchReplies :
              run' = [PhaseDone(run, "root-cause-analysis") EXCEPT
                         !.executionResults =
                             [i \in DOMAIN run.executionResults |->
                                 withRca(run.executionResults[i], reply)]]
       ELSE UNCHANGED run
    /\ opc' = "heal"
    /\ UNCHANGED <<mode, healVars, execVars, rcaVars, tests, autoApprove, oi, failing,
                   updated, gate2Seen, reported, jira, exitCode, gateVars>>

failingResults(executionResults) ==
    Pick(executionResults, {i \in DOMAIN executionResults : executionResults[i].failed > 0})

\* Phase 7, up to the first iteration of the loop of either branch
HealPhase ==
    /\ opc = "heal"
    /\ run' = PhaseStart(run, "heal-locators")
    /\ failing' = failingResults(run.executionResults)
    /\ updated' = IF failing' # <<>> THEN run.executionResults ELSE updated
    /\ oi' = 1
    /\ opc' = IF failing' # <<>> THEN "heal-loop" ELSE "healfile-loop"
    /\ UNCHANGED <<mode, healVars, execVars, rcaVars, tests, autoApprove, gate2Seen,
                   reported, jira, exitCode, gateVars>>

\* healer.healAndRerun(genTest, result, projectRoot) is entered
HealCall ==
    /\ opc = "heal-loop"
    /\ oi <= Len(failing)
    /\ hfile' = failing[oi].filePath
    /\ hcaller' = "loop"
    /\ hpc' = "loop"
    /\ attempt' = 0
    /\ initialResult' = failing[oi]
    /\ current' = failing[oi]
    /\ lastRerun' = None
    /\ retval' = None
    /\ hlog' = <<>>
    /\ opc' = "heal-wait"
    /\ UNCHANGED <<mode, files, maxAttempts, content, brokenLocators, li, healedContent,
                   results, report, execVars, rcaVars, run, tests, autoApprove, oi,
                   failing, updated, gate2Seen, reported, jira, exitCode, gateVars>>

\* updated[idx] = healed
HealReturned ==
    /\ opc = "heal-wait"
    /\ hpc = "returned"
    /\ updated' = [updated EXCEPT
                      ![MinOf({i \in DOMAIN updated : updated[i].filePath = hfile})] = retval]
    /\ oi' = oi + 1
    /\ hpc' = "idle"
    /\ opc' = "heal-loop"
    /\ UNCHANGED <<mode, files, hfile, hcaller, maxAttempts, attempt, initialResult,
                   current, lastRerun, retval, content, brokenLocators, li, healedContent,
                   results, report, hlog, execVars, rcaVars, run, tests, autoApprove,
                   failing, gate2Seen, reported, jira, exitCode, gateVars>>

\* run.executionResults = healedResults
HealLoopEnd ==
    /\ opc = "heal-loop"
    /\ oi > Len(failing)
    /\ run' = [PhaseEnd(run, "completed") EXCEPT !.executionResults = updated]
    /\ opc' = "gate2"
    /\ UNCHANGED <<mode, healVars, execVars, rcaVars, tests, autoApprove, oi, failing,
                   updated, gate2Seen, reported, jira, exitCode, gateVars>>

\* the else branch: healer.healFile(test.filePath) is entered
HealFileCall ==
    /\ opc = "healfile-loop"
    /\ oi <= Len(tests)
    /\ hfile' = tests[oi].filePath
    /\ hcaller' = "orch"
    /\ hpc' = "healFile"
    /\ hlog' = <<>>
    /\ opc' = "healfile-wait"
    /\ UNCHANGED <<mode, files, maxAttempts, attempt, initialResult, current, lastRerun,
                   retval, content, brokenLocators, li, healedContent, results, report,
                   execVars, rcaVars, run, tests, autoApprove, oi, failing, updated,
                   gate2Seen, reported, jira, exitCode, gateVars>>

HealFileReturned ==
    /\ opc = "healfile-wait"
    /\ hpc = "healed"
    /\ oi' = oi + 1
    /\ hpc' = "idle"
    /\ opc' = "healfile-loop"
    /\ UNCHANGED <<mode, files, hfile, hcaller, maxAttempts, attempt, initialResult,
                   current, lastRerun, retval, content, brokenLocators, li, healedContent,
                   results, report, hlog, execVars, rcaVars, run, tests, autoApprove,
                   failing, updated, gate2Seen, reported, jira, exitCode, gateVars>>

HealFileLoopEnd ==
    /\ opc = "healfile-loop"
    /\ oi > Len(tests)
    /\ run' = PhaseEnd(run, "completed")
    /\ opc' = "gate2"
    /\ UNCHANGED <<mode, healVars, execVars, rcaVars, tests, autoApprove, oi, failing,
                   updated, gate2Seen, reported, jira, exitCode, gateVars>>

\* the healer rejected: runPhase records the failure and run's catch block ends the run
HealRaisedInPhase ==
    /\ opc \in {"heal-wait", "healfile-wait"}
    /\ hpc = "raised"
    /\ run' = Fatal(PhaseEnd(run, "failed"))
    /\ hpc' = "idle"
    /\ opc' = "done"
    /\ UNCHANGED <<mode, files, hfile, hcaller, maxAttempts, attempt, initialResult,
                   current, lastRerun, retval, content, brokenLocators, li, healedContent,
                   results, report, hlog, execVars, rcaVars, tests, autoApprove, oi,
                   failing, updated, gate2Seen, reported, jira, exitCode, gateVars>>

\* Phase 8: gitAgent.commitAndPush
GitPush ==
    /\ opc = "git-push"
    /\ \E ok \in BOOLEAN :
         IF ok THEN /\ run' = [PhaseDone(run, "git-push") EXCEPT !.pullRequest = "pr"]
                    /\ opc' = "report"
               ELSE /\ run' = PhaseFailed(run, "git-push")
                    /\ opc' = "done"
    /\ UNCHANGED <<mode, healVars, execVars, rcaVars, tests, autoApprove, oi, failing,
                   updated, gate2Seen, reported, jira, exitCode, gateVars>>

\* jiraConfig.statuses
statuses == [inProgress |-> "In Progress", inReview |-> "In Review", done |-> "Done"]

\* executionResults.reduce((s, r) => s + r.<field>, 0), for the values of the field
RECURSIVE reduceSum(_)
reduceSum(values) ==
    IF values = <<>> THEN 0 ELSE values[1] + reduceSum(Tail(values))

\* transitions.find(t => t.name === name): the name found, NoName for undefined
findTransition(transitions, name) ==
    IF \E i \in DOMAIN transitions : transitions[i] = name THEN name ELSE NoName

\* What Jira answers: the GET of the transitions fails, or lists the names of
\* the transitions the workflow offers; the POST fails or is carried out.
JiraReply(getOk, transitions, postOk) ==
    [getOk |-> getOk, transitions |-> transitions, postOk |-> postOk]

\* transitionJiraStatus: the status the ticket is moved to, NoName when none
transitionJiraStatus(executionResults, reply) ==
    LET totalFailed == reduceSum([i \in DOMAIN executionResults |->
                                     executionResults[i].failed])
        totalTests == reduceSum([i \in DOMAIN executionResults |->
                                    executionResults[i].total])
        targetStatus == IF totalFailed = 0 THEN statuses.done ELSE statuses.inReview
        target == orElseName(findTransition(reply.transitions, targetStatus),
                             findTransition(reply.transitions, statuses.done))
    IN IF totalTests = 0 THEN NoName
       ELSE IF ~reply.getOk THEN NoName
       ELSE IF target = NoName THEN NoName
       ELSE IF ~reply.postOk THEN NoName
       ELSE target

JiraReplies ==
    { JiraReply(FALSE, <<>>, TRUE),
      JiraReply(TRUE, <<>>, TRUE),
      JiraReply(TRUE, <<"In Progress", "In Review", "Done">>, TRUE),
      JiraReply(TRUE, <<"In Progress", "In Review", "Done">>, FALSE),
      JiraReply(TRUE, <<"In Progress", "Done">>, TRUE),
      JiraReply(TRUE, <<"In Review">>, TRUE) }

\* Phase 9 and the end of run.  The phase fails before the ticket is touched
\* (the report, the upload or the comment raises), or after it (the Slack
\* notification raises), or not at all.
Report9 ==
    /\ opc = "report"
    /\ reported' = run.executionResults
    /\ \E fails \in {"before", "after", "never"} :
         /\ IF fails = "never"
            THEN run' = [PhaseDone(run, "report") EXCEPT
                            !.jiraUpdated = TRUE, !.status = "completed",
                            !.completed = TRUE]
            ELSE run' = PhaseFailed(run, "report")
         /\ IF fails = "before"
            THEN jira' = NoName
            ELSE \E reply \in JiraReplies :
                    jira' = transitionJiraStatus(run.executionResults, reply)
    /\ opc' = "done"
    /\ UNCHANGED <<mode, healVars, execVars, rcaVars, tests, autoApprove, oi, failing,
                   updated, gate2Seen, exitCode, gateVars>>

\* the exit code the run command gives process.exit
exitStatus(r) == IF r.status = "completed" THEN 0 ELSE 1

\* the run command: orchestrator.run has returned the record and the process exits
RunCommandExit ==
    /\ opc = "done"
    /\ exitCode = <<>>
    /\ exitCode' = <<exitStatus(run)>>
    /\ UNCHANGED <<mode, healVars, execVars, rcaVars, opc, run, tests, autoApprove, oi,
                   failing, updated, gate2Seen, reported, jira, gateVars>>

InitOrch ==
    /\ mode = "orch"
    /\ files = [f \in TestFiles |-> <<>>]
    /\ maxAttempts \in 0..MaxOrchHeal
    /\ IdleHeal
    /\ IdleExec
    /\ IdleRca
    /\ IdleGate
    /\ opc = "read-ticket"
    /\ run = NewRun
    /\ tests = <<>>
    /\ autoApprove \in BOOLEAN
    /\ oi = 0
    /\ failing = <<>>
    /\ updated = <<>>
    /\ gate2Seen = <<>>
    /\ reported = <<>>
    /\ jira = NoName
    /\ exitCode = <<>>

NextOrch ==
    \/ ReadTicket
    \/ ScanFramework
    \/ BuildStrategy
    \/ Gate1
    \/ GenerateTests
    \/ ExecuteTests
    \/ RcaPhase
    \/ HealPhase
    \/ HealCall
    \/ LoopEnter
    \/ LoopExit
    \/ HealFileStart
    \/ HealStep
    \/ HealFileEnd
    \/ ReExecute
    \/ HealReturn
    \/ HealReturned
    \/ HealLoopEnd
    \/ HealFileCall
    \/ HealFileReturned
    \/ HealFileLoopEnd
    \/ HealRaisedInPhase
    \/ Gate2
    \/ Gate3
    \/ GitPush
    \/ Report9
    \/ RunCommandExit

SpecOrch == InitOrch /\ [][NextOrch]_vars

-----------------------------------------------------------------------------
(* Claims about the healer                                                 *)

Count(ev) == Cardinality({i \in DOMAIN hlog : hlog[i] = ev})

\* two results report the same outcome of a run
SameOutcome(a, b) ==
    /\ a.passed = b.passed /\ a.failed = b.failed /\ a.skipped = b.skipped
    /\ a.total = b.total /\ a.failedTests = b.failedTests

HealTerminated == hpc \in {"returned", "raised"}

HealLoopSafe ==
    /\ Count("pass") <= maxAttempts
    /\ Count("exec") <= maxAttempts
    /\ hpc = "returned" =>
         \/ retval.failed = 0
         \/ Count("exec") > 0 /\ SameOutcome(retval, lastRerun)
         \/ maxAttempts = 0 /\ SameOutcome(retval, initialResult)

\* C1 (as amended): healAndRerun terminates, performs at most N healing passes
\* and at most N re-executions, and returns a result with failed == 0, or the
\* result of the last re-execution, or - when N == 0, so that nothing was
\* re-executed - the initial result.
C1_HealLoopBounded == []HealLoopSafe /\ <>HealTerminated

\* C1 as stated: the returned result has failed == 0 or is the result of the
\* last re-execution.
C1_ReturnsLastRerun ==
    hpc = "returned" =>
        \/ retval.failed = 0
        \/ lastRerun # None /\ SameOutcome(retval, lastRerun)

C1_Witness ==
    /\ hpc = "returned"
    /\ maxAttempts >= 2
    /\ Count("exec") = maxAttempts
    /\ Count("pass") = maxAttempts
    /\ retval.failed > 0

TierNo(tier) == CASE tier = "testid" -> 1 [] tier = "semantic" -> 2 [] tier = "ai" -> 3

\* C2: healLocator tries the tiers in the order 1, 2, 3 and stops at the first
\* success: the tiers invoked are exactly 1..attempts, attempts is the number of
\* the tier of the result, tier 2 is not invoked when tier 1 succeeded, tier 3 is
\* not invoked when tier 1 or tier 2 succeeded, and a failed result tried all three.
C2_TierOrder ==
    \A i \in DOMAIN results :
        /\ results[i].calls = [k \in 1..results[i].attempts |-> k]
        /\ results[i].attempts = TierNo(results[i].tier)
        /\ healTier1(results[i].original) # Null => results[i].calls = <<1>>
        /\ (healTier1(results[i].original) = Null /\ healTier2(results[i].original) # Null)
               => results[i].calls = <<1, 2>>
        /\ ~results[i].success => results[i].attempts = 3

C2_Witness ==
    /\ mode = "locator"
    /\ \E i, j \in DOMAIN results :
         /\ results[i].attempts = 2 /\ results[i].success
         /\ results[j].attempts = 3 /\ ~results[j].success

\* the selector of a detected locator: the text between the quotes
SelectorOf(locator) ==
    SubSeq(locator, Len(PageLocatorOpen) + 2, Len(locator) - 2)

IsDetected(locator, kind) == patternAt(locator, 1, kind) = Len(locator)

TestIdLookup(token) == Chars("page.getByTestId('") \o token \o Chars("')")

\* C3: every detected class-selector locator page.locator('.<token>') is healed
\* at tier 1 to the test-identifier lookup of <token>, lower-cased, with every
\* hyphen replaced by an underscore; tiers 2 and 3 are not invoked.
C3_ClassSelectorHealedToToken ==
    \A i \in DOMAIN results :
        IsDetected(results[i].original, "class") =>
            /\ results[i].success
            /\ results[i].tier = "testid"
            /\ results[i].calls = <<1>>
            /\ results[i].healed =
                 TestIdLookup(replaceDashes(toLowerCase(Tail(SelectorOf(results[i].original)))))

\* the selector has no "." followed by a letter and no @id= test
NoToken(selector) == cssMatchAt(selector) = {} /\ ~includes(selector, Chars("@id="))

ButtonRolePrefix == Chars("page.getByRole('button', { name: '")

\* C4: for a detected positional-path locator whose selector encodes no class-like
\* token and no id test, tier 1 fails; with a quoted fragment of 3 to 40
\* characters the result is produced by tier 2 (semantic, attempts 2), with the
\* button-role query when the expression matches the button keyword family.
C4_PathLocatorHealedByTier2 ==
    \A i \in DOMAIN results :
        ( /\ IsDetected(results[i].original, "xpath")
          /\ NoToken(SelectorOf(results[i].original))
          /\ textMatchAt(results[i].original) # {} ) =>
            /\ results[i].tier = "semantic"
            /\ results[i].attempts = 2
            /\ testAny(results[i].original, {"button", "btn", "submit", "cancel"})
                 => startsWith(results[i].healed, ButtonRolePrefix)

-----------------------------------------------------------------------------
(* Claims about the executor and the root-cause analysis                   *)

Categories ==
    <<"Environment Issue", "Backend Issue", "Frontend Issue", "Data Issue", "UI Issue">>

\* which of the five rules match the analysed record, in the documented order
RuleMatches(i) ==
    CASE i = 1 -> isEnvironment(toLowerCase(rtest.error))
      [] i = 2 -> hasApiError(rtest.networkRequests)
      [] i = 3 -> isFrontend(toLowerCase(joinBlank(rtest.consoleErrors)),
                             rtest.consoleErrors)
      [] i = 4 -> isData(toLowerCase(rtest.error))
      [] i = 5 -> TRUE

HasStatus500 ==
    \E i \in DOMAIN rtest.networkRequests : rtest.networkRequests[i].status = 500

HasBackendEntry ==
    \E i \in DOMAIN rtest.networkRequests :
        \/ rtest.networkRequests[i].status >= 400
        \/ rtest.networkRequests[i].responseTime > 3000

\* C6: classifyIssue returns the category of the first rule that matches in the
\* order Environment, Backend, Frontend, Data, with UI Issue as the default; a
\* connection-refused error text with a status-500 entry is an Environment Issue;
\* without an environment signature, an entry with status >= 400 or a response
\* time above 3000 ms makes it a Backend Issue, whatever the console errors are.
C6_FirstMatchingRule ==
    rres # None =>
        /\ rres.category = Categories[MinOf({i \in 1..5 : RuleMatches(i)})]
        /\ (includes(toLowerCase(rtest.error), Chars("econnrefused")) /\ HasStatus500)
              => rres.category = "Environment Issue"
        /\ (~RuleMatches(1) /\ HasBackendEntry) => rres.category = "Backend Issue"

C6_Witness ==
    /\ rres # None
    /\ rres.category = "Environment Issue"
    /\ includes(toLowerCase(rtest.error), Chars("econnrefused"))
    /\ HasStatus500
    /\ rtest.consoleErrors # <<>>

\* the fixed responsible-role label of each category, in the order of Categories
RoleLabels ==
    <<"DevOps / Environment Team", "Backend Developer", "Frontend Developer",
      "QA Engineer / Data Team", "QA Engineer">>

\* the category the rule cascade gives the analysed record
CascadeNo == MinOf({i \in 1..5 : RuleMatches(i)})

\* the generative call raised, or its reply did not parse
NoAnswer == rreply # None /\ rreply.kind \in {"raise", "badjson"}

\* C16: analyze always returns a result whose category is the one of the rule
\* cascade and whose assignTo is the fixed label of that category; when the
\* generative call raised or its reply did not parse, reason and suggestedFix
\* are the defaults of that category (the category, " detected: " and the first
\* 200 characters of the first line of the error; the fixed advice), and the
\* category is the one a parsed reply would have given.
C16_DefaultsOnFailedCall ==
    rres # None =>
        /\ rres.category = Categories[CascadeNo]
        /\ rres.assignTo = RoleLabels[CascadeNo]
        /\ \A reply \in RcaReplies : analyze(rtest, reply).category = rres.category
        /\ NoAnswer =>
              /\ rres.reason = Chars(rres.category) \o Chars(" detected: ")
                                  \o slice(firstLine(rtest.error), ReasonMax)
              /\ rres.suggestedFix = defaultFix(rres.category)
              /\ rres.suggestedFix # Null

C16_Witness ==
    /\ rres # None
    /\ NoAnswer
    /\ rreply.kind = "raise"
    /\ rres.category = "Data Issue"
    /\ rres.assignTo = "QA Engineer / Data Team"
    /\ Len(firstLine(rtest.error)) < Len(rtest.error)
    /\ rres.reason = Chars("Data Issue detected: expect(received).toBe(expected)")

\* the call before this one had the same error text, console errors and
\* network requests
SameInputs ==
    /\ rprev # None
    /\ rprev.failedTest.error = rtest.error
    /\ rprev.failedTest.consoleErrors = rtest.consoleErrors
    /\ rprev.failedTest.networkRequests = rtest.networkRequests

\* C17: the category is a function of the error text, the console errors and
\* the network requests only: a call of analyze whose record has the same three
\* values as the record of the call before it returns the same category,
\* whatever the other fields of the record are, whatever was classified before
\* and whatever the generative call answered either time.
C17_CategoryOfInputsOnly ==
    (rres # None /\ SameInputs) => rres.category = rprev.category

C17_Witness ==
    /\ rres # None
    /\ SameInputs
    /\ rprev.failedTest.title # rtest.title
    /\ rreply.kind = "raise"
    /\ rres.category = "Backend Issue"
    /\ rres.reason # Null

Executed == eres # None

Unparsed == parseJsonString(erun.raw) = None

\* C8: whenever the captured output cannot be parsed as a report, executeTest
\* returns a result with failed == 1 and the final-success flag false, whatever
\* the exit code of the runner was.
C8_UnparsedCountsOneFailure ==
    (Executed /\ Unparsed) =>
        /\ ~eres.raised
        /\ eres.failed = 1
        /\ ~eres.ultimatelyPassed

\* the tests in the suite tree of the parsed report (0 when there is none)
TestsInTree ==
    IF Unparsed THEN 0
    ELSE IF ~parseJsonString(erun.raw).suitesIterable THEN 0
    ELSE Len(visitSuites(parseJsonString(erun.raw).suites))

\* C9: every result returned by executeTest has passed + failed + skipped ==
\* total, and when the suite tree of the report has tests, total is the number
\* of tests in the tree.
C9_TotalIsSum ==
    (Executed /\ ~eres.raised) =>
        /\ eres.passed + eres.failed + eres.skipped = eres.total
        /\ TestsInTree > 0 => eres.total = TestsInTree

\* C10: executeTest returns a result and never raises, for every outcome of the
\* runner invocation and every captured output text.
C10_NeverRaises == Executed => ~eres.raised


-----------------------------------------------------------------------------
(* Claims about the orchestrator                                           *)

AllClassified(executionResults) ==
    \A i \in DOMAIN executionResults :
        \A k \in DOMAIN executionResults[i].failedTests :
            executionResults[i].failedTests[k].rca # None

\* C7: after the execute, root-cause-analysis and heal phases, every failure
\* record of the execution results handed to Gate 2 and to the reporter carries
\* a root-cause result, also for the artifacts that went through healAndRerun.
C7_FailuresCarryRca == AllClassified(gate2Seen) /\ AllClassified(reported)


-----------------------------------------------------------------------------
(* Claims about the gates                                                  *)

PhaseNames == {run.phases[i].phase : i \in DOMAIN run.phases}

Approved(n) == n <= Len(run.gates) /\ run.gates[n].decision = "approved"

TestsRun == "execute-tests" \in PhaseNames \/ "exec" \in Range(hlog)

\* a test file no longer holds a source that generateTests wrote
Rewritten == \E f \in DOMAIN files : files[f] \notin OrchSources \cup {<<>>}

PhaseCompleted(phase) ==
    \E i \in DOMAIN run.phases :
        run.phases[i].phase = phase /\ run.phases[i].status = "completed"

-----------------------------------------------------------------------------
(* More claims about healAndRerun                                          *)

\* C13: on return from healAndRerun the final-success flag equals (failed == 0)
\* of the returned result and healAttempts is the number of re-executions of the
\* loop; starting from a failing result with maximum N, when every re-execution
\* reported failed > 0 (the returned result still fails) exactly N healing
\* passes and N re-executions occurred and healAttempts == N; and when the
\* initial result has failed == 0, or N == 0, there is no healing pass, no file
\* write and no re-execution at all.
C13_FlagsOnReturn ==
    /\ (initialResult.failed = 0 \/ maxAttempts = 0) => hlog = <<>>
    /\ hpc = "returned" =>
         /\ retval.ultimatelyPassed = (retval.failed = 0)
         /\ retval.healAttempts = Count("exec")
         /\ (initialResult.failed > 0 /\ retval.failed > 0) =>
                /\ Count("pass") = maxAttempts
                /\ Count("exec") = maxAttempts
                /\ retval.healAttempts = maxAttempts

C13_Witness ==
    /\ mode = "heal"
    /\ hpc = "returned"
    /\ maxAttempts = 2
    /\ retval.failed > 0
    /\ retval.healAttempts = 2
    /\ "write" \in Range(hlog)

\* C14: once a re-execution returned failed == 0, healAndRerun performs no
\* further healing pass, file write or re-execution, even when fewer than the
\* maximum number of attempts were used.
C14_StopAtFirstSuccess ==
    [][(lastRerun # None /\ lastRerun.failed = 0) => hlog' = hlog]_vars

C14_Witness ==
    /\ mode = "heal"
    /\ hpc = "returned"
    /\ lastRerun # None
    /\ lastRerun.failed = 0
    /\ attempt >= 1
    /\ attempt < maxAttempts

\* the step writes the source file
Writes == hlog' = Append(hlog, "write") \/ files' # files

\* every write recorded so far directly follows the scan of its own pass
OneWritePerPass ==
    \A i \in DOMAIN hlog : hlog[i] = "write" => (i > 1 /\ hlog[i - 1] = "pass")

\* C18: a pass of healFile writes the file at most once, after the last
\* detected locator was processed, and only when the computed source differs
\* from the source that was read; a pass that detects no locator ends with the
\* report totalLocators == 0, healed == 0, failed == 0 and writes nothing.
C18_WriteOnceIfChanged ==
    /\ []OneWritePerPass
    /\ [][/\ Writes =>
               /\ hpc = "healLoop" /\ hpc' # "healLoop"
               /\ li > Len(brokenLocators)
               /\ Len(results) = Len(brokenLocators)
               /\ healedContent # content
               /\ content = files[hfile]
               /\ files' = [files EXCEPT ![hfile] = healedContent]
          /\ (hpc = "healFile" /\ brokenLocators' = <<>>) =>
               /\ report'.totalLocators = 0
               /\ report'.healed = 0
               /\ report'.failed = 0
               /\ files' = files
               /\ hpc' # "healLoop"
               /\ hlog' = Append(hlog, "pass")]_vars

\* a first pass healed and wrote the file, the test failed again, and the
\* second pass found nothing left to heal
C18_Witness ==
    /\ mode = "heal"
    /\ hlog = <<"pass", "write", "exec", "pass">>
    /\ report.totalLocators = 0
    /\ results # <<>>
    /\ brokenLocators = <<>>
    /\ files[hfile] = content
    /\ hpc = "rerun"

-----------------------------------------------------------------------------
(* More claims about the executor                                          *)

\* the executed output was parsed to a report whose suite tree has tests
ParsedWithTests == Executed /\ ~eres.raised /\ TestsInTree > 0

TreeTests == visitSuites(parseJsonString(erun.raw).suites)

\* the status of the last recorded attempt (the status of the test when no
\* attempt is recorded)
LastStatus(test) ==
    IF Len(test.results) = 0 THEN test.status ELSE test.results[Len(test.results)].status

LastIs(S) == {i \in DOMAIN TreeTests : LastStatus(TreeTests[i][2]) \in S}

\* C15: for every test of a parsed report the status that parseReport counts is
\* the status of the last recorded attempt: a test whose last attempt passed is
\* counted as passed and has no failure record (so failed-then-passed counts as
\* passed), one whose last attempt was skipped is counted as skipped, and any
\* other last status is counted as failed with exactly one failure record.
C15_LastAttemptCounts ==
    ParsedWithTests =>
        /\ eres.passed = Cardinality(LastIs({"passed"}))
        /\ eres.skipped = Cardinality(LastIs({"skipped"}))
        /\ eres.failed = Cardinality(DOMAIN TreeTests \ LastIs({"passed", "skipped"}))
        /\ Len(eres.failedTests) = eres.failed
        /\ \A k \in DOMAIN eres.failedTests :
              eres.failedTests[k].title =
                  Pick(TreeTests, DOMAIN TreeTests \ LastIs({"passed", "skipped"}))[k][1].title

C15_Witness ==
    /\ ParsedWithTests
    /\ Len(TreeTests) = 1
    /\ Len(TreeTests[1][2].results) = 2
    /\ TreeTests[1][2].results[1].status = "failed"
    /\ TreeTests[1][2].results[2].status = "passed"
    /\ eres.passed = 1 /\ eres.failed = 0 /\ eres.failedTests = <<>>

\* the failure records of the parsed report, as parseReport made them
ParsedFailures == parseReport(parseJsonString(erun.raw), eres.filePath).failedTests

Reverse(s) == [i \in 1..Len(s) |-> s[Len(s) + 1 - i]]

\* the record that enrichWithEvidence returns for `ft` when the batch is `batch`
\* and `ft` is at position k of it
EnrichedAt(batch, k) == enrichWithEvidence(batch, erun.dir)[k]

\* C19: the evidence a failure record receives depends only on its title and on
\* the evidence directory: the record that executeTest returns for a failure is
\* the one enrichWithEvidence gives it when it is alone in the batch, when the
\* batch is reversed, when another record (one that matches the same evidence
\* file) is put before it, and when its other fields are different.
C19_EvidencePerRecord ==
    (Executed /\ ~eres.raised /\ parseJsonString(erun.raw) # None) =>
        \A k \in DOMAIN ParsedFailures :
            /\ Len(eres.failedTests) = Len(ParsedFailures)
            /\ eres.failedTests[k] = EnrichedAt(<<ParsedFailures[k]>>, 1)
            /\ eres.failedTests[k]
                 = EnrichedAt(Reverse(ParsedFailures), Len(ParsedFailures) + 1 - k)
            /\ eres.failedTests[k]
                 = EnrichedAt(<<ParsedFailures[k]>> \o ParsedFailures, k + 1)
            /\ findEvidenceFile(eres.failedTests[k].title, erun.dir) # 0 =>
                 EnrichedAt(<<[ParsedFailures[k] EXCEPT !.error = <<>>,
                                                        !.file = NoName]>>, 1)
                   = [eres.failedTests[k] EXCEPT !.error = <<>>, !.file = NoName]

\* a batch of two failures: the evidence file matches the second only
C19_Witness ==
    /\ Executed /\ ~eres.raised
    /\ Len(eres.failedTests) = 2
    /\ findEvidenceFile(eres.failedTests[1].title, erun.dir) = 0
    /\ eres.failedTests[1].domSnapshot = NoName
    /\ findEvidenceFile(eres.failedTests[2].title, erun.dir) = 1
    /\ eres.failedTests[2].fullPageScreenshotPath = "evidence.png"
    /\ eres.failedTests[2].consoleErrors # <<>>
    /\ eres.failedTests[2] # ParsedFailures[2]

-----------------------------------------------------------------------------
(* Claims about the reporter                                               *)

ReportedFailed == reduceSum([i \in DOMAIN reported |-> reported[i].failed])
ReportedTotal == reduceSum([i \in DOMAIN reported |-> reported[i].total])

\* C20: the reporter moves the ticket to Done only when the execution results
\* hold no failed test and at least one test; when a test failed the ticket is
\* moved to In Review or left as it is.
C20_DoneOnlyWhenAllPass ==
    /\ jira = "Done" => (ReportedFailed = 0 /\ ReportedTotal > 0)
    /\ ReportedFailed > 0 => jira \in {"In Review", NoName}

-----------------------------------------------------------------------------
(* Claims about the failure records                                        *)

\* the executed output was parsed to a report and executeTest returned
Parsed == Executed /\ ~eres.raised /\ parseJsonString(erun.raw) # None

\* the evidence file found for failure record k: its index in the listing, 0
\* when none is found or the one found does not parse
UsableEvidence(k) ==
    IF findEvidenceFile(ParsedFailures[k].title, erun.dir) = 0 THEN 0
    ELSE IF erun.dir[findEvidenceFile(ParsedFailures[k].title, erun.dir)].data = None
    THEN 0
    ELSE findEvidenceFile(ParsedFailures[k].title, erun.dir)

\* the record keeps the fields that the evidence never touches
SameIdentity(got, raw) ==
    /\ got.title = raw.title /\ got.file = raw.file /\ got.error = raw.error
    /\ got.rca = raw.rca /\ got.screenshotPath = raw.screenshotPath

\* each of the four fields is the value of the evidence file where the file has
\* one, and the value of the record where it has none
Overlaid(got, raw, ev) ==
    /\ got.fullPageScreenshotPath =
          (IF ev.screenshotPath # NoName THEN ev.screenshotPath
           ELSE raw.fullPageScreenshotPath)
    /\ got.consoleErrors = (IF ev.hasConsole THEN ev.consoleErrors ELSE raw.consoleErrors)
    /\ got.networkRequests =
          (IF ev.hasNetwork THEN ev.networkRequests ELSE raw.networkRequests)
    /\ got.domSnapshot = (IF ev.domSnapshot # NoName THEN ev.domSnapshot
                          ELSE raw.domSnapshot)

\* C21: reconciliation changes a failure record only when an evidence file
\* matches its title and parses: then the full-page screenshot path, the console
\* errors, the network requests and the DOM snapshot are the values of the file
\* (replaced, not merged), and title, file, error text and rca are unchanged;
\* with no match or an unreadable file the record is returned as the runner made
\* it, with empty console errors and network requests and no DOM snapshot.
C21_EvidenceReplacesFields ==
    Parsed =>
        \A k \in DOMAIN ParsedFailures :
            /\ SameIdentity(eres.failedTests[k], ParsedFailures[k])
            /\ ParsedFailures[k].consoleErrors = <<>>
            /\ ParsedFailures[k].networkRequests = <<>>
            /\ ParsedFailures[k].domSnapshot = NoName
            /\ IF UsableEvidence(k) = 0
               THEN eres.failedTests[k] = ParsedFailures[k]
               ELSE Overlaid(eres.failedTests[k], ParsedFailures[k],
                             erun.dir[UsableEvidence(k)].data)

\* the runner attached a full-page screenshot and the evidence file names another
C21_Witness ==
    /\ Parsed
    /\ Len(ParsedFailures) = 1
    /\ UsableEvidence(1) = 1
    /\ ParsedFailures[1].fullPageScreenshotPath = "full.png"
    /\ eres.failedTests[1].fullPageScreenshotPath = "evidence.png"
    /\ eres.failedTests[1].screenshotPath = "shot.png"
    /\ eres.failedTests[1].consoleErrors # <<>>
    /\ eres.failedTests[1].rca = None

\* the titles of the tests of a spec that count as failed, one per test
FailingOfSpec(spec) ==
    [k \in 1..Cardinality({i \in DOMAIN spec.tests :
                              LastStatus(spec.tests[i]) \notin {"passed", "skipped"}})
        |-> spec.title]

\* the titles of the failing tests of a suite tree: for each suite its own
\* specs in order, then its child suites in order
RECURSIVE FailingOfSpecs(_)
RECURSIVE FailingOfSuites(_)
FailingOfSpecs(specs) ==
    IF specs = <<>> THEN <<>>
    ELSE FailingOfSpec(specs[1]) \o FailingOfSpecs(Tail(specs))
FailingOfSuites(suites) ==
    IF suites = <<>> THEN <<>>
    ELSE FailingOfSpecs(suites[1].specs) \o FailingOfSuites(suites[1].suites)
            \o FailingOfSuites(Tail(suites))

TitlesOf(failedTests) == [k \in DOMAIN failedTests |-> failedTests[k].title]

\* C23: the failure records of a result are in the order of the traversal of
\* the suite tree of the report (for each suite its own specs in order, then its
\* child suites in order, recursively), and evidence reconciliation keeps the
\* order and the number of the records that parseReport made.
C23_TraversalOrder ==
    Parsed =>
        /\ TitlesOf(eres.failedTests) = FailingOfSuites(parseJsonString(erun.raw).suites)
        /\ Len(eres.failedTests) = Len(ParsedFailures)
        /\ TitlesOf(eres.failedTests) = TitlesOf(ParsedFailures)

\* a suite with a failing spec of its own and a failing spec two suites below,
\* the second one enriched from its evidence file
C23_Witness ==
    /\ Parsed
    /\ TitlesOf(eres.failedTests) = <<Chars("logs in"), Chars("Shows Error!")>>
    /\ eres.failedTests[2] # ParsedFailures[2]
    /\ eres.failedTests[1] = ParsedFailures[1]

\* C27: in every result that executeTest returns, the failed count is the
\* number of failure records of the result.
C27_FailedHasRecords ==
    (Executed /\ ~eres.raised) => eres.failed = Len(eres.failedTests)

-----------------------------------------------------------------------------
(* Claims about the HealResults                                            *)

\* the confidence of the README table, in percent
TierConfidence(tier) ==
    CASE tier = "testid" -> 95 [] tier = "semantic" -> 80 [] tier = "ai" -> 65

-----------------------------------------------------------------------------
(* Claims about the order of the operations on the artifacts               *)

\* the results of the run are one per generated test, in the order of the tests
OnePerArtifact ==
    run.executionResults # <<>> =>
        /\ Len(run.executionResults) = Len(tests)
        /\ \A i \in DOMAIN tests : run.executionResults[i].filePath = tests[i].filePath

\* what the healer did to the artifact it is at is a sequence of iterations,
\* each one a pass, then its write if there is one, then the re-execution
Alternates ==
    \A i \in DOMAIN hlog :
        /\ hlog[i] = "pass" => (i = 1 \/ hlog[i - 1] = "exec")
        /\ hlog[i] = "write" => (i > 1 /\ hlog[i - 1] = "pass")
        /\ hlog[i] = "exec" => (i > 1 /\ hlog[i - 1] \in {"pass", "write"})

\* the healing pass that is running is over
PassOver == hpc = "rerun" /\ (brokenLocators = <<>> \/ li > Len(brokenLocators))

\* a step: a re-execution starts only when the pass before it is over, a pass
\* starts only when no pass or re-execution is under way, and the orchestrator
\* goes to the next artifact only when the healer has returned
InTurn ==
    /\ hlog' = Append(hlog, "exec") => PassOver
    /\ hlog' = Append(hlog, "pass") => hpc = "healFile"
    /\ (oi' # oi /\ opc \in {"heal-wait", "healfile-wait"}) =>
          (hpc \in {"returned", "healed"} /\ hpc' = "idle")
    /\ (hfile' # hfile \/ (opc \in {"heal-loop", "healfile-loop"} /\ opc' # opc)) =>
          hpc = "idle"

\* C24: the operations on the artifacts never overlap: executeAll returns one
\* result per artifact in input order; in a heal-loop iteration the healing
\* pass, with its write, is over before the re-execution starts, and the
\* re-execution is over before the next pass or the heal loop of the next
\* artifact starts.
C24_OneAtATime == [](mode = "orch" => (OnePerArtifact /\ Alternates)) /\ [][InTurn]_vars

\* the heal loop of the second artifact has made a pass and a re-execution,
\* after the heal loop of the first artifact returned its result
C24_Witness ==
    /\ mode = "orch"
    /\ Len(tests) = 2
    /\ oi = 2
    /\ hfile = tests[2].filePath
    /\ hlog = <<"pass", "exec">>
    /\ updated[1] # run.executionResults[1]
    /\ updated[1].filePath = tests[1].filePath

\* the source of the artifact of a result is the one that was last executed
AsExecuted(result) == files[result.filePath] = ranOn[result.filePath]

\* C25: every rewrite of the source of an artifact by the healer is followed by
\* a re-execution of the artifact before the results are shown at Gate 2: the
\* source of every artifact shown there, and so of every artifact whose result
\* has failed == 0, is the source that its last execution ran.
C25_RewriteThenRerun == \A i \in DOMAIN gate2Seen : AsExecuted(gate2Seen[i])

-----------------------------------------------------------------------------
(* Claims about repeated healing passes                                    *)

\* a pass of healFile has just ended, and it healed every locator it detected
\* at tier 1 or tier 2
AllHealedPass ==
    /\ hpc = "rerun"
    /\ report # None
    /\ report.totalLocators > 0
    /\ report.failed = 0
    /\ \A i \in DOMAIN report.results : report.results[i].tier \in {"testid", "semantic"}

\* C26: after a pass in which every detected locator was healed at tier 1 or
\* tier 2, the source on disk holds no brittle locating expression (so that a
\* second pass detects nothing and writes nothing), also when the same brittle
\* expression occurs several times in the source.
C26_SecondPassFindsNothing ==
    AllHealedPass => detectBrokenLocators(files[hfile]) = <<>>

\* every match of the three patterns in the source that the pass read, class
\* selectors first, then ids, then paths
AllMatches ==
    matchAll(content, 1, "class") \o matchAll(content, 1, "id")
        \o matchAll(content, 1, "xpath")

FirstAt(list, x) == MinOf({i \in DOMAIN list : list[i] = x})

\* a pass of healFile has just returned its report
PassEnded == hpc \in {"rerun", "healed"} /\ report # None

\* C28: every HealingReport that healFile returns has healed + failed ==
\* totalLocators == the number of its HealResults, with exactly one HealResult
\* for each distinct brittle expression detected in the source, in the order of
\* detection.
C28_ReportAddsUp ==
    PassEnded =>
        /\ report.healed + report.failed = report.totalLocators
        /\ report.totalLocators = Len(report.results)
        /\ {report.results[i].original : i \in DOMAIN report.results} = Range(AllMatches)
        /\ \A i, j \in DOMAIN report.results :
              i < j => FirstAt(AllMatches, report.results[i].original)
                          < FirstAt(AllMatches, report.results[j].original)

\* a source with one expression twice and another one once: two HealResults
C28_Witness ==
    /\ PassEnded
    /\ Len(AllMatches) = 3
    /\ Len(report.results) = 2
    /\ report.healed = 2
    /\ report.results[1].original = Chars("page.locator('.a-b')")
    /\ report.results[2].original = Chars("page.locator(\"#main\")")

(***************************************************************************)
(* Claims about the outcome of a run                                       *)
(***************************************************************************)

\* run has returned its record to the run command
Returned == opc = "done"

Ended == {"cancelled", "completed", "failed"}

FailedPhases == {i \in DOMAIN run.phases : run.phases[i].status = "failed"}

\* the status is changed only from 'running', and to one of the three final values
LeavesRunningOnce ==
    run'.status # run.status => (run.status = "running" /\ run'.status \in Ended)

\* once a phase is recorded as failed no phase and no gate is added to the record
StopsAtFailure ==
    FailedPhases # {} => (run'.phases = run.phases /\ run'.gates = run.gates)

RecordOfRun ==
    /\ Returned <=> run.status \in Ended
    /\ run.status \in Ended \cup {"running"}
    /\ run.status = "completed" =>
          /\ Len(run.gates) = 3
          /\ \A n \in 1..3 : Approved(n)
          /\ \A i \in DOMAIN run.phases : run.phases[i].status = "completed"
    /\ FailedPhases # {} =>
          /\ FailedPhases = {Len(run.phases)}
          /\ run.status = "failed"
    /\ exitCode # <<>> =>
          /\ Returned
          /\ exitCode[1] \in {0, 1}
          /\ exitCode[1] = 0 <=> run.status = "completed"

\* C29: run returns its record exactly when the status has left 'running', which
\* it does once, to 'cancelled', 'completed' or 'failed'; the status is
\* 'completed' only when the three gates were approved and every phase that was
\* started completed; a phase that fails is recorded as failed, is the last
\* phase of the record, makes the status 'failed' and is followed by no phase
\* and no gate; and the run command exits with 0 exactly when the status is
\* 'completed', with 1 otherwise.
C29_RunEndsOnce ==
    /\ [](mode = "orch" => RecordOfRun)
    /\ [][mode = "orch" => (LeavesRunningOnce /\ StopsAtFailure)]_vars

\* a run whose git-push phase failed after three approvals, and the command
\* exited with 1
C29_Witness ==
    /\ mode = "orch"
    /\ exitCode = <<1>>
    /\ run.status = "failed"
    /\ \A n \in 1..3 : Approved(n)
    /\ FailedPhases = {Len(run.phases)}
    /\ run.phases[Len(run.phases)].phase = "git-push"

(***************************************************************************)
(* Claims about the approval gate                                          *)
(***************************************************************************)

\* what the person did before the request was resolved, as promptUser sees it
FirstAnswer ==
    IF choice = Null THEN GateTimeout ELSE [timeout |-> FALSE, choice |-> choice]

Decisions == {resolved[i].decision : i \in DOMAIN resolved}

\* the decision the claim gives to a request
DecisionOf ==
    IF autoApprove THEN "approved"
    ELSE IF timer = "fired" /\ "answer" \notin Range(glog) THEN "timeout"
    ELSE IF toUpperCase(trim(choice)) = <<"R">> THEN "rejected"
    ELSE "approved"

GateOutcome ==
    /\ Len(resolved) <= 1
    /\ gpc = "settled" <=> Len(resolved) = 1
    /\ gpc = "asked" => (timer = "armed" /\ choice = Null)
    /\ gpc = "notes" => (timer = "cleared" /\ toUpperCase(trim(choice)) = <<"M">>)
    /\ choice # Null <=> timer = "cleared"
    /\ Len(resolved) = 1 =>
          /\ resolved[1].decision = DecisionOf
          /\ resolved[1] = request(gateNo, autoApprove, FirstAnswer)
    /\ autoApprove => (glog = <<>> /\ timer = "unset" /\ choice = Null)

\* a step after the first answer neither runs the callback of the timer nor
\* resolves the request with 'timeout'
NoTimeoutAfterAnswer ==
    choice # Null =>
        /\ timer' # "fired"
        /\ "timeout" \notin {resolved'[i].decision : i \in DOMAIN resolved'}

====
